---- MODULE Spec2Model ----
(***************************************************************************)
(* Model of the date normalisation and faceting engine of the Pacific Rim  *)
(* Library indexer (pacific_rim_library/date_cleaner_and_faceter.py).      *)
(*                                                                         *)
(* Strings are sequences of one-character strings.  The regular            *)
(* expressions built by DateCleanerAndFaceter.__init__ are kept as syntax  *)
(* trees and run by a backtracking matcher with the priorities of Python's *)
(* re module (leftmost alternative first, greedy quantifiers).             *)
(***************************************************************************)
EXTENDS Integers, Sequences, FiniteSets, TLC

\* ------------------------------------------------------------------ characters

DigitChars == <<"0", "1", "2", "3", "4", "5", "6", "7", "8", "9">>

Digit == {DigitChars[k] : k \in 1..10}

Digit19 == Digit \ {"0"}

Space == {" "}

alpha == {"a", "b", "c", "d", "e", "f", "g", "h", "i", "j", "k", "l", "m",
          "n", "o", "p", "q", "r", "s", "t", "u", "v", "w", "x", "y", "z",
          "A", "B", "C", "D", "E", "F", "G", "H", "I", "J", "K", "L", "M",
          "N", "O", "P", "Q", "R", "S", "T", "U", "V", "W", "X", "Y", "Z"}

\* ------------------------------------------------------------- regex syntax

Chr(cs) == [t |-> "chr", cs |-> cs]

Cat(xs) == [t |-> "cat", xs |-> xs]

Alt(xs) == [t |-> "alt", xs |-> xs]

Opt(x) == [t |-> "opt", x |-> x]

Star(x) == [t |-> "star", x |-> x]

Plus(x) == Cat(<<x, Star(x)>>)

Grp(n, x) == [t |-> "grp", n |-> n, x |-> x]

\* (?=\D|$)
LookNonDigitOrEnd == [t |-> "look"]

\* ^ and $
Bol == [t |-> "bol"]

Eol == [t |-> "eol"]

\* a literal text
Lit(w) == Cat([k \in 1..Len(w) |-> Chr({w[k]})])

\* ------------------------------------------------------------ regex matcher

NGroups == 5

NoGroup == <<0, 0>>

NoGroups == [n \in 1..NGroups |-> NoGroup]

\* The concatenation of the sequences ss[1], ss[2], ...
RECURSIVE FlatCatFrom(_, _)
FlatCatFrom(ss, k) ==
    IF k \notin DOMAIN ss THEN <<>> ELSE ss[k] \o FlatCatFrom(ss, k + 1)

FlatCat(ss) == FlatCatFrom(ss, 1)

\* Ends(r, s, i, c): the ways r matches s from position i with the groups c
\* captured so far, as a sequence of [e, c] (e the position after the match)
\* in the order in which a backtracking matcher tries them.
RECURSIVE Ends(_, _, _, _)
RECURSIVE EndsCat(_, _, _, _, _)
Ends(r, s, i, c) ==
    CASE r.t = "chr" ->
            IF i <= Len(s) /\ s[i] \in r.cs
            THEN <<[e |-> i + 1, c |-> c]>> ELSE <<>>
      [] r.t = "cat" -> EndsCat(r.xs, 1, s, i, c)
      [] r.t = "alt" -> FlatCat([k \in 1..Len(r.xs) |-> Ends(r.xs[k], s, i, c)])
      [] r.t = "opt" -> Ends(r.x, s, i, c) \o <<[e |-> i, c |-> c]>>
      [] r.t = "star" ->
            LET once == Ends(r.x, s, i, c)
            IN  FlatCat([k \in 1..Len(once) |->
                            IF once[k].e > i
                            THEN Ends(r, s, once[k].e, once[k].c) ELSE <<>>])
                \o <<[e |-> i, c |-> c]>>
      [] r.t = "grp" ->
            LET inner == Ends(r.x, s, i, c)
            IN  [k \in 1..Len(inner) |->
                    [e |-> inner[k].e,
                     c |-> [inner[k].c EXCEPT ![r.n] = <<i, inner[k].e>>]]]
      [] r.t = "look" ->
            IF i > Len(s) \/ s[i] \notin Digit
            THEN <<[e |-> i, c |-> c]>> ELSE <<>>
      [] r.t = "bol" -> IF i = 1 THEN <<[e |-> i, c |-> c]>> ELSE <<>>
      [] r.t = "eol" -> IF i = Len(s) + 1 THEN <<[e |-> i, c |-> c]>> ELSE <<>>
EndsCat(xs, k, s, i, c) ==
    IF k > Len(xs) THEN <<[e |-> i, c |-> c]>>
    ELSE LET first == Ends(xs[k], s, i, c)
         IN  FlatCat([j \in 1..Len(first) |->
                         EndsCat(xs, k + 1, s, first[j].e, first[j].c)])

\* The text of group n of a match (empty when the group took no part).
GroupText(s, m, n) ==
    IF m.c[n] = NoGroup THEN <<>> ELSE SubSeq(s, m.c[n][1], m.c[n][2] - 1)

\* A match object: its span and the texts of its groups.
MatchAt(r, s, i) ==
    LET First(ms) ==
            IF ms = <<>> THEN [found |-> FALSE]
            ELSE [found |-> TRUE, start |-> i, end |-> ms[1].e,
                  group |-> [n \in 1..NGroups |-> GroupText(s, ms[1], n)]]
    IN  First(Ends(r, s, i, NoGroups))

\* re.compile(r).match(s)
re_match(r, s) == MatchAt(r, s, 1)

\* re.findall(r, s) for a pattern with groups: the group texts of the
\* non-overlapping matches, scanning from the left.
RECURSIVE FindFrom(_, _, _)
FindFrom(r, s, i) ==
    LET Step(m) ==
            IF ~m.found THEN FindFrom(r, s, i + 1)
            ELSE <<m.group>> \o FindFrom(r, s, IF m.end > i THEN m.end ELSE i + 1)
    IN  IF i > Len(s) THEN <<>> ELSE Step(MatchAt(r, s, i))

re_findall(r, s) == FindFrom(r, s, 1)

\* ------------------------------------------------------ the pattern library

\* \s, over the characters of the model
WhiteSpace == {" "}

Markers == {"-", "*", "?"}

\* regexes['match']['suffix-bce']: BC|B\.C\.|BCE|B\.C\.E\.
match_suffix_bce ==
    Alt(<<Lit(<<"B", "C">>), Lit(<<"B", ".", "C", ".">>),
          Lit(<<"B", "C", "E">>), Lit(<<"B", ".", "C", ".", "E", ".">>)>>)

\* regexes['match']['suffix-ce']: AD|A\.D\.|CE|C\.E\.
match_suffix_ce ==
    Alt(<<Lit(<<"A", "D">>), Lit(<<"A", ".", "D", ".">>),
          Lit(<<"C", "E">>), Lit(<<"C", ".", "E", ".">>)>>)

match_suffix == Alt(<<match_suffix_bce, match_suffix_ce>>)

\* (?:0[1-9]|1[0-2])
match_mm ==
    Alt(<<Cat(<<Chr({"0"}), Chr(Digit19)>>),
          Cat(<<Chr({"1"}), Chr({"0", "1", "2"})>>)>>)

\* (?:0[1-9]|[1-2]\d|3[0-1])
match_dd ==
    Alt(<<Cat(<<Chr({"0"}), Chr(Digit19)>>),
          Cat(<<Chr({"1", "2"}), Chr(Digit)>>),
          Cat(<<Chr({"3"}), Chr({"0", "1"})>>)>>)

match_mon ==
    Alt(<<Lit(<<"J", "a", "n">>), Lit(<<"F", "e", "b">>), Lit(<<"M", "a", "r">>),
          Lit(<<"A", "p", "r">>), Lit(<<"M", "a", "y">>), Lit(<<"J", "u", "n">>),
          Lit(<<"J", "u", "l">>), Lit(<<"A", "u", "g">>), Lit(<<"S", "e", "p">>),
          Lit(<<"O", "c", "t">>), Lit(<<"N", "o", "v">>), Lit(<<"D", "e", "c">>)>>)

\* \d{1,2}[.:]\d{2}(?:[apAP]\.?[mM]\.?)?
match_time ==
    Cat(<<Chr(Digit), Opt(Chr(Digit)), Chr({".", ":"}), Chr(Digit), Chr(Digit),
          Opt(Cat(<<Chr({"a", "p", "A", "P"}), Opt(Chr({"."})),
                    Chr({"m", "M"}), Opt(Chr({"."}))>>))>>)

\* regexes['match']['year0,1'] is the raw text [1-9]\d{{0,1}}: it is never
\* passed through str.format as a template, so the doubled braces stay and re
\* reads it as [1-9], \d, an optional literal "{", a literal "}".
match_year01 ==
    Cat(<<Chr(Digit19), Chr(Digit), Opt(Chr({"{"})), Chr({"}"})>>)

match_year01_plus_suffix == Cat(<<match_year01, Chr({" "}), match_suffix>>)

\* regexes['match']['year2,3'] goes through str.format: [1-9]\d{2,3}
match_year23 == Cat(<<Chr(Digit19), Chr(Digit), Chr(Digit), Opt(Chr(Digit))>>)

match_year23_plus_suffix ==
    Cat(<<match_year23, Opt(Cat(<<Chr({" "}), match_suffix>>))>>)

match_year == Alt(<<match_year01_plus_suffix, match_year23_plus_suffix>>)

capture_year01_plus_suffix ==
    Cat(<<Grp(1, match_year01), Chr({" "}), Grp(2, match_suffix)>>)

capture_year23_plus_suffix ==
    Cat(<<Grp(3, match_year23), Opt(Cat(<<Chr({" "}), Grp(4, match_suffix)>>))>>)

capture_year == Alt(<<capture_year01_plus_suffix, capture_year23_plus_suffix>>)

\* regexes['match']['year?']: [1-9]\d{1,2}\d?[-*?]
match_year_unknown ==
    Cat(<<Chr(Digit19), Chr(Digit), Opt(Chr(Digit)), Opt(Chr(Digit)), Chr(Markers)>>)

\* regexes['match']['year-mm']
match_year_mm ==
    Cat(<<match_year,
          Opt(Alt(<<Cat(<<Chr({"-", "/"}), match_mm>>), Chr(Markers)>>)),
          LookNonDigitOrEnd>>)

match_year_year ==
    Cat(<<match_year_mm, Star(Chr(WhiteSpace)), Chr({"-", "/"}),
          Star(Chr(WhiteSpace)), match_year_mm>>)

match_dd_mon_year_time ==
    Cat(<<match_dd, Plus(Chr(WhiteSpace)), match_mon, Plus(Chr(WhiteSpace)),
          match_year,
          Opt(Cat(<<Chr({"."}), Plus(Chr(WhiteSpace)), match_time>>))>>)

\* (?:1st|2nd|3rd|(?:[4-9]|1[0-9]|20)th)\s+[cC](?:entury)?
match_century ==
    Cat(<<Alt(<<Lit(<<"1", "s", "t">>), Lit(<<"2", "n", "d">>), Lit(<<"3", "r", "d">>),
                Cat(<<Alt(<<Chr({"4", "5", "6", "7", "8", "9"}),
                            Cat(<<Chr({"1"}), Chr(Digit)>>),
                            Lit(<<"2", "0">>)>>),
                      Lit(<<"t", "h">>)>>)>>),
          Plus(Chr(WhiteSpace)), Chr({"c", "C"}),
          Opt(Lit(<<"e", "n", "t", "u", "r", "y">>))>>)

match_century_plus_suffix ==
    Cat(<<match_century, Opt(Cat(<<Plus(Chr(WhiteSpace)), match_suffix>>))>>)

\* The composite pattern with the plain year tried first.
match_date_plain_year_first ==
    Alt(<<Grp(5, match_year), Grp(1, match_century_plus_suffix),
          Grp(2, match_year_year), Grp(3, match_dd_mon_year_time),
          Grp(4, match_year_unknown)>>)

\* regexes['match']['date']: order of alternate patterns is important
match_date ==
    Alt(<<Grp(1, match_century_plus_suffix), Grp(2, match_year_year),
          Grp(3, match_dd_mon_year_time), Grp(4, match_year_unknown),
          Grp(5, match_year)>>)

\* The splitter with the separator "-" alone, "/" forgotten.
substitution_year_year_splitter_hyphen_only ==
    Cat(<<Grp(1, match_year_mm), Star(Chr(WhiteSpace)), Chr({"-"}),
          Star(Chr(WhiteSpace)), Grp(2, match_year_mm)>>)

substitution_year_year_splitter ==
    Cat(<<Grp(1, match_year_mm), Star(Chr(WhiteSpace)), Chr({"-", "/"}),
          Star(Chr(WhiteSpace)), Grp(2, match_year_mm)>>)

substitution_dd_mon_year_time ==
    Cat(<<match_dd, Plus(Chr(WhiteSpace)), match_mon, Plus(Chr(WhiteSpace)),
          Grp(1, match_year),
          Opt(Cat(<<Chr({"."}), Plus(Chr(WhiteSpace)), match_time>>))>>)

capture_century_plus_suffix ==
    Cat(<<Grp(1, match_century),
          Opt(Cat(<<Plus(Chr(WhiteSpace)), Grp(2, match_suffix)>>))>>)

\* ---------------------------------------------------------- string helpers

\* int(text): the value of a decimal numeral; anything else is a ValueError.
IsNumeral(w) == w # <<>> /\ \A k \in 1..Len(w) : w[k] \in Digit

DigitValue(ch) == CHOOSE d \in 0..9 : DigitChars[d + 1] = ch

RECURSIVE int(_)
int(w) ==
    IF Len(w) = 1 THEN DigitValue(w[1])
    ELSE 10 * int(SubSeq(w, 1, Len(w) - 1)) + DigitValue(w[Len(w)])

\* str.lstrip(chars)
RECURSIVE lstrip(_, _)
lstrip(w, chars) ==
    IF w # <<>> /\ Head(w) \in chars THEN lstrip(Tail(w), chars) ELSE w

RECURSIVE rstrip(_, _)
rstrip(w, chars) ==
    IF w # <<>> /\ w[Len(w)] \in chars
    THEN rstrip(SubSeq(w, 1, Len(w) - 1), chars) ELSE w

\* str.strip()
strip(w) == rstrip(lstrip(w, WhiteSpace), WhiteSpace)

\* A replacement template of re.sub: literal characters and group references.
TLit(ch) == [g |-> 0, ch |-> ch]

TRef(n) == [g |-> n, ch |-> ""]

Expand(template, m) ==
    FlatCat([k \in 1..Len(template) |->
                IF template[k].g = 0 THEN <<template[k].ch>>
                ELSE m.group[template[k].g]])

\* re.sub(r, template, s)
RECURSIVE SubFrom(_, _, _, _)
SubFrom(r, template, s, i) ==
    LET Step(m) ==
            IF m.found /\ m.end > i
            THEN Expand(template, m) \o SubFrom(r, template, s, m.end)
            ELSE <<s[i]>> \o SubFrom(r, template, s, i + 1)
    IN  IF i > Len(s) THEN <<>> ELSE Step(MatchAt(r, s, i))

re_sub(r, template, s) == SubFrom(r, template, s, 1)

IsPrefixAt(sep, w, i) ==
    /\ i + Len(sep) - 1 <= Len(w)
    /\ SubSeq(w, i, i + Len(sep) - 1) = sep

\* str.split(sep)
RECURSIVE SplitFrom(_, _, _, _)
SplitFrom(w, sep, i, from) ==
    IF i > Len(w) THEN <<SubSeq(w, from, Len(w))>>
    ELSE IF IsPrefixAt(sep, w, i)
         THEN <<SubSeq(w, from, i - 1)>>
              \o SplitFrom(w, sep, i + Len(sep), i + Len(sep))
         ELSE SplitFrom(w, sep, i + 1, from)

split(w, sep) == SplitFrom(w, sep, 1, 1)

\* ------------------------------------------------------------ year values

\* What _date_match_to_int_or_tuple hands back: an int, a tuple of two ints,
\* the empty set it starts from (after a swallowed ValueError), or an
\* exception that it lets escape.
IntValue(n) == [k |-> "int", a |-> n, b |-> n]

TupleValue(lo, hi) == [k |-> "tuple", a |-> lo, b |-> hi]

EmptySetValue == [k |-> "set", a |-> 0, b |-> 0]

Raises(exc) == [k |-> exc, a |-> 0, b |-> 0]

IsYearValue(v) == v.k \in {"int", "tuple"}

\* ---------------------------------------------------------- value resolver

\* the pattern \d+ of line 198
leading_number == Plus(Chr(Digit))

\* The century rule without its look at the suffix.
CenturyToTuple_unsigned(text) ==
    LET Number(number) == int(SubSeq(text, 1, number.end - 1))
        Tuple(century) == TupleValue(100 * (century - 1), 100 * (century - 1) + 99)
    IN  Tuple(Number(re_match(leading_number, text)))

\* lines 196-208: year range derived from a century
CenturyToTuple(text) ==
    LET Number(number) == int(SubSeq(text, 1, number.end - 1))
        Tuple(century, match) ==
            IF match.group[2] # <<>> /\ re_match(match_suffix_bce, match.group[2]).found
            THEN TupleValue(100 * (-century), 100 * (-century) + 99)
            ELSE TupleValue(100 * (century - 1), 100 * (century - 1) + 99)
    IN  Tuple(Number(re_match(leading_number, text)),
              re_match(capture_century_plus_suffix, text))

\* lines 218-234: one endpoint of an explicit year range
RangeEndpoint(piece) ==
    LET Signed(digits, suffix) ==
            IF ~IsNumeral(digits)
            THEN [exc |-> "ValueError", v |-> 0, none |-> FALSE]
            ELSE IF suffix # <<>>
                 THEN IF re_match(match_suffix_bce, suffix).found
                      THEN [exc |-> "none", v |-> (-1) * int(digits), none |-> FALSE]
                      ELSE [exc |-> "none", v |-> int(digits), none |-> FALSE]
                 ELSE [exc |-> "none", v |-> int(digits), none |-> TRUE]
        Endpoint(match) ==
            IF ~match.found THEN [exc |-> "AttributeError", v |-> 0, none |-> FALSE]
            ELSE Signed(IF match.group[1] # <<>> THEN match.group[1]
                        ELSE match.group[3],
                        IF match.group[2] # <<>> THEN match.group[2]
                        ELSE match.group[4])
    IN  Endpoint(re_match(capture_year, strip(piece)))

\* The year range with its endpoints put in ascending order.
YearRangeToTuple_ascending(text) ==
    LET Endpoints(pieces) == [i \in 1..Len(pieces) |-> RangeEndpoint(pieces[i])]
        Ordered(lo, hi) == IF lo <= hi THEN TupleValue(lo, hi) ELSE TupleValue(hi, lo)
        Tuple(range_of_stuff, failed) ==
            IF failed # {}
            THEN LET First(i) == IF range_of_stuff[i].exc = "ValueError"
                                 THEN EmptySetValue
                                 ELSE Raises(range_of_stuff[i].exc)
                 IN  First(CHOOSE j \in failed : \A h \in failed : j <= h)
            ELSE IF Len(range_of_stuff) < 2 THEN Raises("IndexError")
            ELSE IF range_of_stuff[1].none /\ range_of_stuff[2].v <= 0
                 THEN Ordered((-1) * range_of_stuff[1].v, range_of_stuff[2].v)
                 ELSE Ordered(range_of_stuff[1].v, range_of_stuff[2].v)
        Resolve(range_of_stuff) ==
            Tuple(range_of_stuff,
                  {i \in 1..Len(range_of_stuff) : range_of_stuff[i].exc # "none"})
    IN  Resolve(Endpoints(split(
            re_sub(substitution_year_year_splitter,
                   <<TRef(1), TLit(">"), TLit("|"), TLit("<"), TRef(2)>>, text),
            <<">", "|", "<">>)))

\* The year range without the second look at its first endpoint.
YearRangeToTuple_no_resign(text) ==
    LET Endpoints(pieces) == [i \in 1..Len(pieces) |-> RangeEndpoint(pieces[i])]
        Tuple(range_of_stuff, failed) ==
            IF failed # {}
            THEN LET First(i) == IF range_of_stuff[i].exc = "ValueError"
                                 THEN EmptySetValue
                                 ELSE Raises(range_of_stuff[i].exc)
                 IN  First(CHOOSE j \in failed : \A h \in failed : j <= h)
            ELSE IF Len(range_of_stuff) < 2 THEN Raises("IndexError")
            ELSE TupleValue(range_of_stuff[1].v, range_of_stuff[2].v)
        Resolve(range_of_stuff) ==
            Tuple(range_of_stuff,
                  {i \in 1..Len(range_of_stuff) : range_of_stuff[i].exc # "none"})
    IN  Resolve(Endpoints(split(
            re_sub(substitution_year_year_splitter,
                   <<TRef(1), TLit(">"), TLit("|"), TLit("<"), TRef(2)>>, text),
            <<">", "|", "<">>)))

\* lines 209-241: explicit year range
YearRangeToTuple(text) ==
    LET Endpoints(pieces) == [i \in 1..Len(pieces) |-> RangeEndpoint(pieces[i])]
        Tuple(range_of_stuff, failed) ==
            IF failed # {}
            THEN LET First(i) == IF range_of_stuff[i].exc = "ValueError"
                                 THEN EmptySetValue
                                 ELSE Raises(range_of_stuff[i].exc)
                 IN  First(CHOOSE j \in failed : \A h \in failed : j <= h)
            ELSE IF Len(range_of_stuff) < 2 THEN Raises("IndexError")
            ELSE IF range_of_stuff[1].none /\ range_of_stuff[2].v <= 0
                 THEN TupleValue((-1) * range_of_stuff[1].v, range_of_stuff[2].v)
                 ELSE TupleValue(range_of_stuff[1].v, range_of_stuff[2].v)
        Resolve(range_of_stuff) ==
            Tuple(range_of_stuff,
                  {i \in 1..Len(range_of_stuff) : range_of_stuff[i].exc # "none"})
    IN  Resolve(Endpoints(split(
            re_sub(substitution_year_year_splitter,
                   <<TRef(1), TLit(">"), TLit("|"), TLit("<"), TRef(2)>>, text),
            <<">", "|", "<">>)))

\* lines 242-245: extract single year
DayMonthYearToInt(text) ==
    LET Year(prep) == IF IsNumeral(prep) THEN IntValue(int(prep))
                      ELSE EmptySetValue
    IN  Year(strip(re_sub(substitution_dd_mon_year_time, <<TRef(1)>>, text)))

\* lines 326-335; the result is the text that int() is then applied to
\* (an int result is given as its numeral)
\* (^\d{4}$), line 330
four_digits ==
    Grp(1, Cat(<<Bol, Chr(Digit), Chr(Digit), Chr(Digit), Chr(Digit), Eol>>))

\* (^\d{1,3})[-*?]$, line 334
digits_and_marker ==
    Cat(<<Grp(1, Cat(<<Bol, Chr(Digit), Opt(Chr(Digit)), Opt(Chr(Digit))>>)),
          Chr(Markers), Eol>>)

\* The rounding without the "0" that stands for the unknown digit.
_resolve_unknown_ones_unpadded(i) ==
    LET Resolve(m4, m13) ==
            IF m4.found THEN m4.group[1]
            ELSE IF ~m13.found THEN i ELSE m13.group[1]
    IN  Resolve(re_match(four_digits, i), re_match(digits_and_marker, i))

_resolve_unknown_ones(i) ==
    LET Resolve(m4, m13) ==
            IF m4.found THEN m4.group[1]
            ELSE IF ~m13.found THEN i ELSE m13.group[1] \o <<"0">>
    IN  Resolve(re_match(four_digits, i), re_match(digits_and_marker, i))

\* [1-9]\d{3}, line 249
full_year == Cat(<<Chr(Digit19), Chr(Digit), Chr(Digit), Chr(Digit)>>)

\* lines 246-254: year with unknown ones
UnknownYearToInt(text) ==
    LET Resolved(resolved) == IF IsNumeral(resolved) THEN IntValue(int(resolved))
                              ELSE EmptySetValue
        Year(y, match) ==
            IF ~match.found THEN Resolved(_resolve_unknown_ones(y))
            ELSE IntValue(int(SubSeq(y, 1, match.end - 1)))
        Stripped(y) == Year(y, re_match(full_year, y))
    IN  Stripped(strip(text))

\* The plain year without the sign that a BCE suffix gives it.
PlainYearToInt_unsigned(text) ==
    LET Unsigned(digits) ==
            IF ~IsNumeral(digits) THEN EmptySetValue ELSE IntValue(int(digits))
        Year(match) ==
            IF ~match.found THEN Raises("AttributeError")
            ELSE Unsigned(IF match.group[1] # <<>> THEN match.group[1]
                          ELSE match.group[3])
    IN  Year(re_match(capture_year, text))

\* lines 256-266: plain old year
PlainYearToInt(text) ==
    LET Signed(digits, suffix) ==
            IF ~IsNumeral(digits) THEN EmptySetValue
            ELSE IF suffix # <<>> /\ re_match(match_suffix_bce, suffix).found
                 THEN IntValue((-1) * int(digits))
                 ELSE IntValue(int(digits))
        Year(match) ==
            IF ~match.found THEN Raises("AttributeError")
            ELSE Signed(IF match.group[1] # <<>> THEN match.group[1]
                        ELSE match.group[3],
                        IF match.group[2] # <<>> THEN match.group[2]
                        ELSE match.group[4])
    IN  Year(re_match(capture_year, text))

\* m: the five group texts of one match of regexes['match']['date']
_date_match_to_int_or_tuple(m) ==
    IF m[1] # <<>> THEN CenturyToTuple(m[1])
    ELSE IF m[2] # <<>> THEN YearRangeToTuple(m[2])
    ELSE IF m[3] # <<>> THEN DayMonthYearToInt(m[3])
    ELSE IF m[4] # <<>> THEN UnknownYearToInt(m[4])
    ELSE IF m[5] # <<>> THEN PlainYearToInt(m[5])
    ELSE Raises("NameError")

\* ------------------------------------------------------------ facet reducer

\* Division that truncates toward zero, as C's / does.
FloorDiv_truncating(n, d) == IF n >= 0 THEN n \div d ELSE -((-n) \div d)

\* floor division, as Python's //
FloorDiv(n, d) == n \div d

\* set(range(start, stop, step)) for step > 0
Range(start, stop, step) ==
    {n \in start..(stop - 1) : (n - start) % step = 0}

\* The reducer without the floor of the scalar year and of the range's start.
DecadesOf_unfloored(decade) ==
    IF decade.k = "int" THEN {decade.a}
    ELSE IF decade.k = "tuple" THEN Range(decade.a, decade.b + 1, 10)
         ELSE {}

\* The reducer with the range's end left out (range(start, end, 10)).
DecadesOf_end_excluded(decade) ==
    IF decade.k = "int" THEN {FloorDiv(decade.a, 10) * 10}
    ELSE IF decade.k = "tuple"
         THEN Range(FloorDiv(decade.a, 10) * 10, decade.b, 10)
         ELSE {}

\* One element of the preprocessed data, lines 286-289.
DecadesOf(decade) ==
    IF decade.k = "int" THEN {FloorDiv(decade.a, 10) * 10}
    ELSE IF decade.k = "tuple"
         THEN Range(FloorDiv(decade.a, 10) * 10, decade.b + 1, 10)
         ELSE {}

\* The value of _enumerate_decades when disjoint holds; with disjoint false
\* the function falls off its end and returns None.
_enumerate_decades(preprocessed_data) ==
    UNION {DecadesOf(decade) : decade \in preprocessed_data}

\* -------------------------------------------------------- calendar parsing

\* dateutil.parser.parse(date_string).year, for the strings of the model.
\* dateutil reads a bare year of three or four digits and a day, month name
\* and year (either also when followed by AD, one of its skipped words); it raises
\* ValueError on a string holding a word or sign it does not know (BC, CE,
\* century, ?, *, #, [ ...), on two year numbers and on the empty string.
parse_year_only ==
    Cat(<<Bol, Grp(1, match_year23), Opt(Lit(<<" ", "A", "D">>)), Eol>>)

parse_day_month_year ==
    Cat(<<Bol, match_dd, Plus(Chr(WhiteSpace)), match_mon, Plus(Chr(WhiteSpace)),
          Grp(1, match_year23), Opt(Lit(<<" ", "A", "D">>)), Eol>>)

parse(date_string) ==
    LET Year(y, dmy) ==
            IF y.found THEN [ok |-> TRUE, year |-> int(y.group[1])]
            ELSE IF dmy.found THEN [ok |-> TRUE, year |-> int(dmy.group[1])]
            ELSE [ok |-> FALSE, year |-> 0]
    IN  Year(re_match(parse_year_only, date_string),
             re_match(parse_day_month_year, date_string))

\* ----------------------------------------------------------- date extractor

Returns(years) == [exc |-> "none", years |-> years]

Throws(exc) == [exc |-> exc, years |-> {}]

\* The set comprehension of line 322: the matches are resolved in order; an
\* exception leaving the resolver ends it, and so does the TypeError of
\* adding the resolver's empty set (unhashable) to the set being built.
RECURSIVE ResolveAll(_, _, _)
ResolveAll(matches, j, acc) ==
    LET Add(v) == IF v.k = "set" THEN Throws("TypeError")
                  ELSE IF ~IsYearValue(v) THEN Throws(v.k)
                  ELSE ResolveAll(matches, j + 1, acc \cup {v})
    IN  IF j > Len(matches) THEN Returns(acc)
        ELSE Add(_date_match_to_int_or_tuple(matches[j]))

\* The extractor with the date patterns consulted before the calendar parse.
_extract_year_data_patterns_first(date_string) ==
    LET Try(first, second, matches) ==
            IF Len(matches) > 0 THEN ResolveAll(matches, 1, {})
            ELSE IF first.ok THEN Returns({IntValue(first.year)})
            ELSE IF second.ok THEN Returns({IntValue(second.year)})
            ELSE Returns({})
    IN  Try(parse(date_string),
            parse(lstrip(date_string, alpha \cup {" "})),
            re_findall(match_date, date_string))

\* The extractor with the second ValueError left to escape.
_extract_year_data_unguarded(date_string) ==
    LET Try(first, second, matches) ==
            IF first.ok THEN Returns({IntValue(first.year)})
            ELSE IF second.ok THEN Returns({IntValue(second.year)})
            ELSE Throws("ValueError")
    IN  Try(parse(date_string),
            parse(lstrip(date_string, alpha \cup {" "})),
            re_findall(match_date, date_string))

_extract_year_data(date_string) ==
    LET Try(first, second, matches) ==
            IF first.ok THEN Returns({IntValue(first.year)})
            ELSE IF second.ok THEN Returns({IntValue(second.year)})
            ELSE IF Len(matches) > 0 THEN ResolveAll(matches, 1, {})
            ELSE Returns({})
    IN  Try(parse(date_string),
            parse(lstrip(date_string, alpha \cup {" "})),
            re_findall(match_date, date_string))

\* ------------------------------------------------------------- the texts

\* "BC"
BC == <<"B", "C">>

\* "B.C."
BC_DOTS == <<"B", ".", "C", ".">>

\* "BCE"
BCE == <<"B", "C", "E">>

\* "B.C.E."
BCE_DOTS == <<"B", ".", "C", ".", "E", ".">>

\* "AD"
AD == <<"A", "D">>

\* "A.D."
AD_DOTS == <<"A", ".", "D", ".">>

\* "CE"
CE == <<"C", "E">>

\* "C.E."
CE_DOTS == <<"C", ".", "E", ".">>

\* "?"
QUESTION == <<"?">>

\* "*"
STAR == <<"*">>

\* "-?"
DASH_QUESTION == <<"-", "?">>

\* "*?"
STAR_QUESTION == <<"*", "?">>

\* "century"
CENTURY == <<"c", "e", "n", "t", "u", "r", "y">>

\* "192?-193?"
RANGE_UNCERTAIN == <<"1", "9", "2", "?", "-", "1", "9", "3", "?">>

\* "1850?-1900"
RANGE_HALF_UNCERTAIN == <<"1", "8", "5", "0", "?", "-", "1", "9", "0", "0">>

\* "1920-05/1921-06"
RANGE_MONTHS == <<"1", "9", "2", "0", "-", "0", "5", "/", "1", "9", "2", "1", "-", "0", "6">>

\* "1920/35 CE"
RANGE_SHORT_END == <<"1", "9", "2", "0", "/", "3", "5", " ", "C", "E">>

\* "12 Jan 1999"
DMY_1999 == <<"1", "2", " ", "J", "a", "n", " ", "1", "9", "9", "9">>

\* "[12 Jan 1999]"
DMY_1999_BRACKETS == <<"[", "1", "2", " ", "J", "a", "n", " ", "1", "9", "9", "9", "]">>

\* "[12 Jan 1999. 10:20]"
DMY_1999_TIME ==
    <<"[", "1", "2", " ", "J", "a", "n", " ", "1", "9", "9", 
      "9", ".", " ", "1", "0", ":", "2", "0", "]">>

\* "12 Jan 1999 AD"
DMY_1999_AD ==
    <<"1", "2", " ", "J", "a", "n", " ", "1", "9", "9", "9", " ", "A", "D">>

\* "circa 12 Jan 1999 AD"
CIRCA_DMY_1999_AD ==
    <<"c", "i", "r", "c", "a", " ", "1", "2", " ", "J",
      "a", "n", " ", "1", "9", "9", "9", " ", "A", "D">>

\* "12 Jan 500 BC"
DMY_500_BC == <<"1", "2", " ", "J", "a", "n", " ", "5", "0", "0", " ", "B", "C">>

\* "12 Jan 500 CE"
DMY_500_CE == <<"1", "2", " ", "J", "a", "n", " ", "5", "0", "0", " ", "C", "E">>

\* "circa 1920"
CIRCA_1920 == <<"c", "i", "r", "c", "a", " ", "1", "9", "2", "0">>

\* "Winter 1920-1935"
WINTER_RANGE == <<"W", "i", "n", "t", "e", "r", " ", "1", "9", "2", "0", "-", "1", "9", "3", "5">>

\* "1920-1935, 1950?"
RANGE_AND_YEAR == <<"1", "9", "2", "0", "-", "1", "9", "3", "5", ",", " ", "1", "9", "5", "0", "?">>

\* "500 BC or 1995 CE"
TWO_YEARS == <<"5", "0", "0", " ", "B", "C", " ", "o", "r", " ", "1", "9", "9", "5", " ", "C", "E">>

\* "12 Jan 500 BC, 1995 CE"
DMY_BC_AND_YEAR == <<"1", "2", " ", "J", "a", "n", " ", "5", "0", "0", " ", "B", "C", ",", " ", "1", "9", "9", "5", " ", "C", "E">>

\* "1995 CE, 12 Jan 500 BC"
YEAR_AND_DMY_BC == <<"1", "9", "9", "5", " ", "C", "E", ",", " ", "1", "2", " ", "J", "a", "n", " ", "5", "0", "0", " ", "B", "C">>

\* "not a date at all"
NOT_A_DATE == <<"n", "o", "t", " ", "a", " ", "d", "a", "t", "e", " ", "a", "t", " ", "a", "l", "l">>

\* "undated"
UNDATED == <<"u", "n", "d", "a", "t", "e", "d">>

\* "n.d."
N_D == <<"n", ".", "d", ".">>

\* -------------------------------------------------------- the date strings

\* str(n) for n >= 0
RECURSIVE Numeral(_)
Numeral(n) ==
    IF n < 10 THEN <<DigitChars[n + 1]>>
    ELSE Numeral(n \div 10) \o <<DigitChars[(n % 10) + 1]>>

SuffixesBCE == {BC, BC_DOTS, BCE, BCE_DOTS}

SuffixesCE == {AD, AD_DOTS, CE, CE_DOTS}

NoSuffix == <<>>

WithSuffix(text, suffix) ==
    IF suffix = NoSuffix THEN text ELSE text \o <<" ">> \o suffix

\* plain years of three and four digits, with every suffix and with none
FourDigitYears == {1000, 1009, 1920, 1935, 1995, 1999, 2000, 9999}

LongYears == {100, 199, 500, 505, 999} \cup FourDigitYears

PlainYearString(y, suffix) == WithSuffix(Numeral(y), suffix)

PlainYearStrings ==
    {PlainYearString(y, suffix) :
        y \in LongYears, suffix \in SuffixesBCE \cup SuffixesCE \cup {NoSuffix}}

\* years of one and two digits
ShortYears == {5, 44}

ShortYearStrings ==
    {PlainYearString(y, suffix) :
        y \in ShortYears, suffix \in SuffixesBCE \cup (SuffixesCE \ {AD})}
    \cup {<<"#">> \o Numeral(y) : y \in ShortYears}

\* uncertain years: digits, a marker, and a further sign that dateutil rejects
UncertainDigits == {19, 199, 505, 1920, 1999}

UncertainTails == {QUESTION, STAR, DASH_QUESTION, STAR_QUESTION}

UncertainYearString(n, tail) == Numeral(n) \o tail

UncertainYearStrings ==
    {UncertainYearString(n, tail) : n \in UncertainDigits, tail \in UncertainTails}

\* year ranges
RangeYears == {192, 500, 1920, 1935, 1940}

RangeSeparators == {<<"-">>, <<"/">>, <<" ", "-", " ">>}

RangeString(first, sep, second) == first \o sep \o second

PlainRangeStrings ==
    {RangeString(Numeral(a), sep, Numeral(b)) :
        a \in RangeYears, b \in RangeYears, sep \in RangeSeparators}

SuffixedRangeStrings ==
    {RangeString(WithSuffix(Numeral(a), s1), <<"-">>, WithSuffix(Numeral(b), s2)) :
        a \in {400, 500}, b \in {400, 500}, s1 \in {NoSuffix, BC, CE},
        s2 \in SuffixesBCE \cup SuffixesCE}
    \cup {RangeString(WithSuffix(Numeral(a), s1), <<"-">>, Numeral(b)) :
        a \in {400, 500}, b \in {400, 500}, s1 \in {BC, CE}}

OtherRangeStrings ==
    {RANGE_UNCERTAIN, RANGE_HALF_UNCERTAIN, RANGE_MONTHS, RANGE_SHORT_END}

\* centuries
Ordinal(n) ==
    Numeral(n) \o (IF n % 10 = 1 /\ n # 11 THEN <<"s", "t">>
                   ELSE IF n % 10 = 2 /\ n # 12 THEN <<"n", "d">>
                   ELSE IF n % 10 = 3 /\ n # 13 THEN <<"r", "d">>
                   ELSE <<"t", "h">>)

CenturyOrdinals == 1..20

CenturyWords == {CENTURY, <<"c">>, <<"C">>}

CenturyString(n, word, suffix) ==
    WithSuffix(Ordinal(n) \o <<" ">> \o word, suffix)

CenturyStrings ==
    {CenturyString(n, CENTURY, suffix) :
        n \in CenturyOrdinals, suffix \in {NoSuffix, BC, BCE_DOTS, AD, CE_DOTS}}
    \cup {CenturyString(n, word, suffix) :
        n \in {1, 2, 3, 4, 19, 20}, word \in CenturyWords,
        suffix \in SuffixesBCE \cup SuffixesCE \cup {NoSuffix}}

OtherCenturyStrings ==
    {CenturyString(n, CENTURY, suffix) : n \in {21, 22}, suffix \in {NoSuffix, BC}}

DayMonthYearStrings ==
    {DMY_1999, DMY_1999_BRACKETS, DMY_1999_TIME, DMY_1999_AD, DMY_500_BC,
     DMY_500_CE}

PrefixedStrings == {CIRCA_1920, WINTER_RANGE, CIRCA_DMY_1999_AD}

SeveralDatesStrings ==
    {RANGE_AND_YEAR, TWO_YEARS, DMY_BC_AND_YEAR, YEAR_AND_DMY_BC}

FormlessStrings ==
    {NOT_A_DATE, UNDATED, N_D, <<>>}

DateStrings ==
    PlainYearStrings \cup ShortYearStrings \cup UncertainYearStrings
    \cup PlainRangeStrings \cup SuffixedRangeStrings \cup OtherRangeStrings
    \cup CenturyStrings \cup OtherCenturyStrings \cup DayMonthYearStrings
    \cup PrefixedStrings \cup SeveralDatesStrings \cup FormlessStrings

\* the strings that the multi-valued calls draw their sets from
BatchStrings ==
    {RangeString(Numeral(1920), <<"-">>, Numeral(1935)),
     PlainYearString(500, BC), UncertainYearString(199, DASH_QUESTION),
     CenturyString(19, CENTURY, NoSuffix), PlainYearString(1995, NoSuffix),
     PlainYearString(44, BC), NOT_A_DATE, DMY_500_BC, CIRCA_1920}

\* ------------------------------------------------------------------ bounds

\* the largest number of strings in the set handed to one call
MaxData == 2

\* the years handed to the facet reducer directly lie in -MaxYear..MaxYear
MaxYear == 25

\* ------------------------------------------------------------- the callers

\* The argument of decades: one string, or a set of strings.
OneString(s) == [multi |-> FALSE, strs |-> {s}]

SetOfStrings(ss) == [multi |-> TRUE, strs |-> ss]

Inputs ==
    {OneString(s) : s \in DateStrings}
    \cup {SetOfStrings(ss) : ss \in {x \in SUBSET BatchStrings : Cardinality(x) <= MaxData}}

ReducerYears == (-MaxYear)..MaxYear

\* The preprocessed data handed to the facet reducer directly.
ReducerInputs ==
    {{IntValue(y)} : y \in ReducerYears}
    \cup {{TupleValue(a, b)} : a \in ReducerYears, b \in ReducerYears}
    \cup {{}}

\* The inputs of the calls that are made while another thread's call waits.
ThreadInputs ==
    {OneString(RangeString(Numeral(1920), <<"-">>, Numeral(1935))),
     OneString(NOT_A_DATE),
     SetOfStrings({RangeString(Numeral(1920), <<"-">>, Numeral(1935)),
                   PlainYearString(500, BC)}),
     SetOfStrings({PlainYearString(1995, NoSuffix), DMY_500_BC})}

\* self.regexes as __init__ leaves it, lines 18-136
regexes_built ==
    [match |->
        ("suffix-bce" :> match_suffix_bce @@ "suffix-ce" :> match_suffix_ce
         @@ "suffix" :> match_suffix @@ "mm" :> match_mm @@ "dd" :> match_dd
         @@ "mon" :> match_mon @@ "time" :> match_time
         @@ "year0,1" :> match_year01
         @@ "year0,1-plus-suffix" :> match_year01_plus_suffix
         @@ "year2,3" :> match_year23
         @@ "year2,3-plus-suffix" :> match_year23_plus_suffix
         @@ "year" :> match_year @@ "year?" :> match_year_unknown
         @@ "year-mm" :> match_year_mm @@ "year-year" :> match_year_year
         @@ "dd-mon-year-time" :> match_dd_mon_year_time
         @@ "century" :> match_century
         @@ "century-plus-suffix" :> match_century_plus_suffix
         @@ "date" :> match_date),
     capture |->
        ("year0,1-plus-suffix" :> capture_year01_plus_suffix
         @@ "year2,3-plus-suffix" :> capture_year23_plus_suffix
         @@ "year" :> capture_year
         @@ "century-plus-suffix" :> capture_century_plus_suffix),
     substitution |->
        ("year-year-splitter" :> substitution_year_year_splitter
         @@ "dd-mon-year-time" :> substitution_dd_mon_year_time)]

\* _extract_year_data of every string of the model, computed once
Extracted == [s \in DateStrings |-> _extract_year_data(s)]

\* The variables of the indexer, which the date engine never touches.
VARIABLES
    dry_run,                \* self.args['dry_run']
    connected,              \* whether connect has been called
    settings_file,          \* the harvest keys in the scheduled-harvests file
    harvester_settings,     \* the keys of the harvester_settings LevelDB store
    record_sets,            \* the record_sets LevelDB store: identifier -> entry
    solr,                   \* the Solr index: identifier -> document
    s3,                     \* the thumbnail keys held by the S3 bucket
    before,                 \* the record's entry when the last operation began
    last                    \* the last operation, its arguments and its outcome

store_vars ==
    <<dry_run, connected, settings_file, harvester_settings, record_sets,
      solr, s3, before, last>>

\* The variables of the main program and its two observer threads.
VARIABLES
    main_pc,                \* where the main thread is
    exceptions_queue,       \* the Queue shared by all threads
    observers,              \* the two Observer threads
    events_begun,           \* how many events the handlers have been given
    escaped                 \* how many exceptions left a handler uncaught

main_vars == <<main_pc, exceptions_queue, observers, events_begun, escaped>>

\* The variables of download_thumbnail.
VARIABLES
    dl_pc,                  \* where the call of download_thumbnail is
    try_i,                  \* the loop variable of "for try_i in range(...)"
    requests_made,          \* how many times requests.get was called
    timeouts,               \* how many of these calls timed out
    response,               \* the response being written to the file
    dl_result,              \* what the call returned or raised
    exception_caught,       \* the exception the loop's except clauses caught
    thumbnail_file          \* the chunks of the file at filepath, -1: no file

thumbnail_vars ==
    <<dl_pc, try_i, requests_made, timeouts, response, dl_result,
      exception_caught, thumbnail_file>>

indexer_vars == <<store_vars, main_vars, thumbnail_vars>>

\* No response is being written.
NoResponse ==
    [content_type |-> [given |-> FALSE, text |-> <<>>], size |-> 0, chunks |-> 0]

\* The main program is not run.
MainUnused ==
    /\ main_pc = "unused"
    /\ exceptions_queue = <<>>
    /\ observers = <<>>
    /\ events_begun = 0
    /\ escaped = 0

\* No thumbnail is downloaded.
ThumbnailUnused ==
    /\ dl_pc = "unused"
    /\ try_i = 0
    /\ requests_made = 0
    /\ timeouts = 0
    /\ response = NoResponse
    /\ dl_result = "none"
    /\ exception_caught = "none"
    /\ thumbnail_file = -1

\* No entry under an identifier (None of record_sets.get, no document of Solr).
Absent == [present |-> FALSE, collectionKey |-> <<>>, collectionName |-> <<>>]

\* No operation has been called yet.
NoOperation ==
    [op |-> "none", id |-> "", collection_key |-> "", raised |-> "none"]

\* The indexer of a program that only uses the date engine: never built.
IndexerUnused ==
    /\ dry_run = FALSE
    /\ connected = FALSE
    /\ settings_file = {}
    /\ harvester_settings = {}
    /\ record_sets = <<>>
    /\ solr = <<>>
    /\ s3 = {}
    /\ before = Absent
    /\ last = NoOperation
    /\ MainUnused
    /\ ThumbnailUnused

VARIABLES
    pc,                     \* where the call is
    data,                   \* decades' argument
    disjoint,               \* decades' flag
    todo,                   \* the strings the for loop has yet to visit
    preprocessed_year_data, \* the result of the last extraction
    decade_set,             \* decades' accumulator
    year_set,               \* years' accumulator
    result,                 \* the set returned
    raised,                 \* the exception that left the call, or "none"
    regexes,                \* self.regexes, the engine's pattern table
    suspended,              \* the locals of the call of a thread that waits
    doc,                    \* the 'decade' and 'sort_decade' fields of a pysolr_doc
    decades_left            \* the decades that _add_decades has yet to add

\* the variables of _add_decades
document_vars == <<doc, decades_left>>

\* the variables of the date engine and of its caller
engine_vars ==
    <<pc, data, disjoint, todo, preprocessed_year_data, decade_set, year_set,
      result, raised, regexes, suspended, document_vars>>

NoData == SetOfStrings({})

\* A pysolr_doc without a 'decade' and without a 'sort_decade' field.
NoFields == <<>>

\* The locals of a thread that is in no call.
NoCall ==
    [pc |-> "idle", data |-> NoData, disjoint |-> TRUE, todo |-> {},
     preprocessed_year_data |-> {}, decade_set |-> {}, year_set |-> {},
     result |-> {}, raised |-> "none"]

EngineInit ==
    /\ pc = "idle"
    /\ data = NoData
    /\ disjoint = TRUE
    /\ todo = {}
    /\ preprocessed_year_data = {}
    /\ decade_set = {}
    /\ year_set = {}
    /\ result = {}
    /\ raised = "none"
    /\ regexes = regexes_built
    /\ suspended = NoCall
    /\ doc = NoFields
    /\ decades_left = {}

\* The program that uses the date engine and the document builder only.
Init == EngineInit /\ IndexerUnused

\* decades, lines 145-148: the assertion sends a string to the except branch
Call(d, dj) ==
    /\ pc = "idle"
    /\ suspended.pc = "idle" \/ d \in ThreadInputs
    /\ data' = d
    /\ disjoint' = dj
    /\ decade_set' = {}
    /\ todo' = IF d.multi THEN d.strs ELSE {}
    /\ pc' = IF d.multi THEN "for" ELSE "except"
    /\ UNCHANGED <<preprocessed_year_data, result, raised>>
    /\ UNCHANGED <<year_set, regexes, suspended, document_vars, indexer_vars>>

\* lines 149-150: the next datum, in whatever order the set yields it
ForExtract(datum) ==
    /\ pc = "for"
    /\ datum \in todo
    /\ todo' = todo \ {datum}
    /\ LET r == Extracted[datum]
       IN  IF r.exc = "none"
           THEN /\ preprocessed_year_data' = r.years
                /\ pc' = "for_enumerate"
                /\ raised' = raised
           ELSE IF r.exc = "TypeError"
           THEN /\ pc' = "except"
                /\ UNCHANGED <<preprocessed_year_data, raised>>
           ELSE /\ pc' = "raised"
                /\ raised' = r.exc
                /\ UNCHANGED preprocessed_year_data
    /\ UNCHANGED <<data, disjoint, decade_set, result>>
    /\ UNCHANGED <<year_set, regexes, suspended, document_vars, indexer_vars>>

\* The loop body with the accumulator overwritten instead of united.
ForEnumerate_overwriting ==
    /\ pc = "for_enumerate"
    /\ IF disjoint
       THEN /\ decade_set' = _enumerate_decades(preprocessed_year_data)
            /\ pc' = "for"
       ELSE /\ pc' = "except"
            /\ UNCHANGED decade_set
    /\ UNCHANGED <<data, disjoint, todo, preprocessed_year_data, result, raised>>
    /\ UNCHANGED <<year_set, regexes, suspended, document_vars, indexer_vars>>

\* line 151: with disjoint false _enumerate_decades returns None, and the
\* union of a set and None is a TypeError, which the except clause catches
ForEnumerate ==
    /\ pc = "for_enumerate"
    /\ IF disjoint
       THEN /\ decade_set' = decade_set \cup _enumerate_decades(preprocessed_year_data)
            /\ pc' = "for"
       ELSE /\ pc' = "except"
            /\ UNCHANGED decade_set
    /\ UNCHANGED <<data, disjoint, todo, preprocessed_year_data, result, raised>>
    /\ UNCHANGED <<year_set, regexes, suspended, document_vars, indexer_vars>>

ForEnd ==
    /\ pc = "for"
    /\ todo = {}
    /\ pc' = "return"
    /\ UNCHANGED <<data, disjoint, todo, preprocessed_year_data, decade_set, result, raised>>
    /\ UNCHANGED <<year_set, regexes, suspended, document_vars, indexer_vars>>

\* line 154: the single value; handed a set, dateutil's parse raises TypeError
ExceptExtract ==
    /\ pc = "except"
    /\ IF data.multi
       THEN /\ pc' = "raised"
            /\ raised' = "TypeError"
            /\ UNCHANGED preprocessed_year_data
       ELSE LET r == Extracted[CHOOSE s \in data.strs : TRUE]
            IN  IF r.exc = "none"
                THEN /\ preprocessed_year_data' = r.years
                     /\ pc' = "except_enumerate"
                     /\ raised' = raised
                ELSE /\ pc' = "raised"
                     /\ raised' = r.exc
                     /\ UNCHANGED preprocessed_year_data
    /\ UNCHANGED <<data, disjoint, todo, decade_set, result>>
    /\ UNCHANGED <<year_set, regexes, suspended, document_vars, indexer_vars>>

\* line 155
ExceptEnumerate ==
    /\ pc = "except_enumerate"
    /\ IF disjoint
       THEN /\ decade_set' = decade_set \cup _enumerate_decades(preprocessed_year_data)
            /\ pc' = "return"
            /\ raised' = raised
       ELSE /\ pc' = "raised"
            /\ raised' = "TypeError"
            /\ UNCHANGED decade_set
    /\ UNCHANGED <<data, disjoint, todo, preprocessed_year_data, result>>
    /\ UNCHANGED <<year_set, regexes, suspended, document_vars, indexer_vars>>

\* line 157
Return ==
    /\ pc = "return"
    /\ result' = decade_set
    /\ pc' = "done"
    /\ UNCHANGED <<data, disjoint, todo, preprocessed_year_data, decade_set, raised>>
    /\ UNCHANGED <<year_set, regexes, suspended, document_vars, indexer_vars>>

\* _enumerate_decades called on preprocessed data, lines 283-291
Reduce(preprocessed_data) ==
    /\ pc = "idle"
    /\ suspended.pc = "idle"
    /\ preprocessed_year_data' = preprocessed_data
    /\ result' = _enumerate_decades(preprocessed_data)
    /\ pc' = "reduced"
    /\ UNCHANGED <<data, disjoint, todo, decade_set, raised>>
    /\ UNCHANGED <<year_set, regexes, suspended, document_vars, indexer_vars>>

\* years, lines 166-169: a string fails the assertion, and years does not
\* catch AssertionError
YearsCall(d, dj) ==
    /\ pc = "idle"
    /\ suspended.pc = "idle" \/ d \in ThreadInputs
    /\ data' = d
    /\ disjoint' = dj
    /\ year_set' = {}
    /\ todo' = IF d.multi THEN d.strs ELSE {}
    /\ IF d.multi
       THEN /\ pc' = "years_for"
            /\ raised' = raised
       ELSE /\ pc' = "years_raised"
            /\ raised' = "AssertionError"
    /\ UNCHANGED <<preprocessed_year_data, decade_set, result, regexes, suspended>>
    /\ UNCHANGED <<document_vars, indexer_vars>>

\* lines 170-171
YearsForExtract(datum) ==
    /\ pc = "years_for"
    /\ datum \in todo
    /\ todo' = todo \ {datum}
    /\ LET r == Extracted[datum]
       IN  IF r.exc = "none"
           THEN /\ preprocessed_year_data' = r.years
                /\ pc' = "years_for_enumerate"
                /\ raised' = raised
           ELSE IF r.exc = "TypeError"
           THEN /\ pc' = "years_except"
                /\ UNCHANGED <<preprocessed_year_data, raised>>
           ELSE /\ pc' = "years_raised"
                /\ raised' = r.exc
                /\ UNCHANGED preprocessed_year_data
    /\ UNCHANGED <<data, disjoint, decade_set, year_set, result, regexes, suspended>>
    /\ UNCHANGED <<document_vars, indexer_vars>>

\* line 172: _enumerate_years is pass and returns None for either flag, and
\* the union of a set and None is a TypeError, which the except clause catches
YearsForEnumerate ==
    /\ pc = "years_for_enumerate"
    /\ pc' = "years_except"
    /\ UNCHANGED <<data, disjoint, todo, preprocessed_year_data, decade_set,
                   year_set, result, raised, regexes, suspended>>
    /\ UNCHANGED <<document_vars, indexer_vars>>

YearsForEnd ==
    /\ pc = "years_for"
    /\ todo = {}
    /\ pc' = "years_return"
    /\ UNCHANGED <<data, disjoint, todo, preprocessed_year_data, decade_set,
                   year_set, result, raised, regexes, suspended>>
    /\ UNCHANGED <<document_vars, indexer_vars>>

\* lines 174-176: the whole set is handed to _extract_year_data as a single
\* value, and dateutil's parse raises TypeError on a set; a string never
\* comes here, so that line 177 is never reached
YearsExcept ==
    /\ pc = "years_except"
    /\ data.multi
    /\ pc' = "years_raised"
    /\ raised' = "TypeError"
    /\ UNCHANGED <<data, disjoint, todo, preprocessed_year_data, decade_set,
                   year_set, result, regexes, suspended>>
    /\ UNCHANGED <<document_vars, indexer_vars>>

\* line 179
YearsReturn ==
    /\ pc = "years_return"
    /\ result' = year_set
    /\ pc' = "years_done"
    /\ UNCHANGED <<data, disjoint, todo, preprocessed_year_data, decade_set,
                   year_set, raised, regexes, suspended>>
    /\ UNCHANGED <<document_vars, indexer_vars>>

\* Where a direct call of the reducer or _add_decades is; these are made
\* while no other thread's call waits.
DirectPcs == {"reduced", "add_decades", "documented"}

\* The locals of the running call.
Locals ==
    [pc |-> pc, data |-> data, disjoint |-> disjoint, todo |-> todo,
     preprocessed_year_data |-> preprocessed_year_data,
     decade_set |-> decade_set, year_set |-> year_set,
     result |-> result, raised |-> raised]

\* The accumulators kept on the engine instead of in the call: the switch
\* leaves them where they are.
Switch_sharing_accumulators ==
    /\ pc = "idle" \/ (pc \notin DirectPcs /\ data \in ThreadInputs)
    /\ pc' = suspended.pc
    /\ data' = suspended.data
    /\ disjoint' = suspended.disjoint
    /\ todo' = suspended.todo
    /\ preprocessed_year_data' = suspended.preprocessed_year_data
    /\ result' = suspended.result
    /\ raised' = suspended.raised
    /\ suspended' = Locals
    /\ UNCHANGED <<decade_set, year_set, regexes, document_vars, indexer_vars>>

\* Another thread runs on the same engine: the running call waits with its
\* locals, and the waiting one goes on with its own. Everything that
\* decades and years assign is a local of the call.
Switch ==
    /\ pc = "idle" \/ (pc \notin DirectPcs /\ data \in ThreadInputs)
    /\ pc' = suspended.pc
    /\ data' = suspended.data
    /\ disjoint' = suspended.disjoint
    /\ todo' = suspended.todo
    /\ preprocessed_year_data' = suspended.preprocessed_year_data
    /\ decade_set' = suspended.decade_set
    /\ year_set' = suspended.year_set
    /\ result' = suspended.result
    /\ raised' = suspended.raised
    /\ suspended' = Locals
    /\ UNCHANGED <<regexes, document_vars, indexer_vars>>

\* The caller is done with the outcome; the engine keeps nothing of the call.
\* ---------------------------------------------------------------------
\* The document builder's use of the engine: PRLSolrDocument._add_decades.
\* ---------------------------------------------------------------------

\* A field of a pysolr_doc that holds one value, not a list.
Scalar(value) == [list |-> FALSE, items |-> <<value>>]

\* A field of a pysolr_doc that holds a list.
List(items) == [list |-> TRUE, items |-> items]

\* The helper that keeps only the value added last under a key.
_add_value_possibly_duplicate_key_overwriting(key, value, dic) ==
    (key :> Scalar(value)) @@ dic

\* _add_value_possibly_duplicate_key: the first value of a key is stored
\* bare, the second turns the field into a list, later ones are appended.
_add_value_possibly_duplicate_key(key, value, dic) ==
    IF key \in DOMAIN dic
      THEN IF dic[key].list
             THEN [dic EXCEPT ![key] = List(Append(@.items, value))]
             ELSE [dic EXCEPT ![key] = List(<<@.items[1], value>>)]
      ELSE (key :> Scalar(value)) @@ dic

\* min(decades, key=lambda x: int(x))
min(decades) == CHOOSE x \in decades : \A y \in decades : x <= y

\* The largest decade set whose insertion orders are enumerated.
MaxDecades == 3

\* A record without a date field: years stays empty, decades is not called.
AddDecadesWithoutDates ==
    /\ pc = "idle"
    /\ suspended.pc = "idle"
    /\ pc' = "documented"
    /\ UNCHANGED <<data, disjoint, todo, preprocessed_year_data, decade_set,
                   year_set, result, raised, regexes, suspended>>
    /\ UNCHANGED <<document_vars, indexer_vars>>

\* decades(years) has returned to _add_decades: "if decades:".  An
\* exception of decades leaves _add_decades and the constructor instead.
AddDecadesIf ==
    /\ pc = "done"
    /\ data.multi /\ data.strs # {} /\ disjoint
    /\ suspended.pc = "idle"
    /\ Cardinality(result) <= MaxDecades
    /\ pc' = IF result # {} THEN "add_decades" ELSE "documented"
    /\ decades_left' = result
    /\ UNCHANGED <<data, disjoint, todo, preprocessed_year_data, decade_set,
                   year_set, result, raised, regexes, suspended>>
    /\ UNCHANGED <<doc, indexer_vars>>

\* One turn of "for decade in decades"; a set is walked in any order.
AddDecadesFor(decade) ==
    /\ pc = "add_decades"
    /\ decade \in decades_left
    /\ doc' = _add_value_possibly_duplicate_key("decade", decade, doc)
    /\ decades_left' = decades_left \ {decade}
    /\ UNCHANGED <<pc, data, disjoint, todo, preprocessed_year_data, decade_set,
                   year_set, result, raised, regexes, suspended>>
    /\ UNCHANGED indexer_vars

\* doc['sort_decade'] = min(decades, ...), after the loop.
AddDecadesSort ==
    /\ pc = "add_decades"
    /\ decades_left = {}
    /\ doc' = [f \in DOMAIN doc \cup {"sort_decade"} |->
                 IF f = "sort_decade" THEN Scalar(min(result)) ELSE doc[f]]
    /\ pc' = "documented"
    /\ UNCHANGED <<data, disjoint, todo, preprocessed_year_data, decade_set,
                   year_set, result, raised, regexes, suspended>>
    /\ UNCHANGED <<decades_left, indexer_vars>>

Finish ==
    /\ pc \in {"done", "raised", "reduced", "years_done", "years_raised", "documented"}
    /\ pc' = "idle"
    /\ data' = NoData
    /\ disjoint' = TRUE
    /\ todo' = {}
    /\ preprocessed_year_data' = {}
    /\ decade_set' = {}
    /\ year_set' = {}
    /\ result' = {}
    /\ raised' = "none"
    /\ doc' = NoFields
    /\ decades_left' = {}
    /\ UNCHANGED <<regexes, suspended, indexer_vars>>

Next ==
    \/ \E d \in Inputs, dj \in BOOLEAN : Call(d, dj)
    \/ \E datum \in DateStrings : ForExtract(datum)
    \/ ForEnumerate
    \/ ForEnd
    \/ ExceptExtract
    \/ ExceptEnumerate
    \/ Return
    \/ \E pre \in ReducerInputs : Reduce(pre)
    \/ \E d \in Inputs, dj \in BOOLEAN : YearsCall(d, dj)
    \/ \E datum \in DateStrings : YearsForExtract(datum)
    \/ YearsForEnumerate
    \/ YearsForEnd
    \/ YearsExcept
    \/ YearsReturn
    \/ Switch
    \/ AddDecadesWithoutDates
    \/ AddDecadesIf
    \/ \E decade \in decades_left : AddDecadesFor(decade)
    \/ AddDecadesSort
    \/ Finish

vars == <<engine_vars, indexer_vars>>

Spec == Init /\ [][Next]_vars

\* ---------------------------------------------------------------------
\* The indexer: Indexer.connect, update_record, remove_record and
\* set_harvester_settings, each called to its end by one thread.
\* ---------------------------------------------------------------------

\* the record identifiers (file names) of the harvest directory
RecordIdentifiers == {"r1"}

\* the collection keys (set_spec) of the harvests
CollectionKeys == {"A", "B", "C"}

\* oai_pmh_metadata['sets'][set_spec]: sets A and B carry the same setName.
SetName(collection_key) ==
    IF collection_key = "C" THEN "Photographs" ELSE "Maps"

\* the record files: a record's file lies in the directory of a collection
Paths == [id : RecordIdentifiers, collection_key : CollectionKeys]

\* the contents the scheduled-harvests file takes
SettingsFiles == {{"A", "B", "C"}, {"A", "B"}}

\* what the services do to a request: Solr refuses, or LevelDB refuses a write
Faults == {"none", "solr", "leveldb"}

\* what save_thumbnail does for the record: it puts a thumbnail on S3, or
\* there is none to save
Thumbnails == {"saved", "none"}

\* The record files with a thumbnail link are those of collection A.
ThumbnailsOf(path) ==
    IF path.collection_key = "A" THEN Thumbnails ELSE {"none"}

\* An entry of record_sets, and the two list fields of a Solr document.
Entry(collection_key, collection_name) ==
    [present |-> TRUE, collectionKey |-> collection_key,
     collectionName |-> collection_name]

\* A store without a record.
EmptyStore == [id \in RecordIdentifiers |-> Absent]

\* The indexer after Indexer(args, config), on a machine whose stores are
\* still empty (create_if_missing=True); they fill and outlive a connection.
InitIndexer ==
    /\ EngineInit
    /\ dry_run \in BOOLEAN
    /\ connected = FALSE
    /\ settings_file \in SettingsFiles
    /\ harvester_settings = {}
    /\ record_sets = EmptyStore
    /\ solr = EmptyStore
    /\ s3 = {}
    /\ before = Absent
    /\ last = NoOperation
    /\ MainUnused
    /\ ThumbnailUnused

\* The outcome of an operation, as the history records it.
Ended(op, path, exception) ==
    [op |-> op, id |-> path.id, collection_key |-> path.collection_key,
     raised |-> exception]

\* The argument of an operation that takes no record file.
NoPath == [id |-> "", collection_key |-> ""]

\* connect: _connect_internal_services opens the two LevelDB stores and
\* calls set_harvester_settings, whatever dry_run is; only
\* _connect_external_services (the Solr ping) is left out in a dry run.
Connect(fault) ==
    /\ ~connected
    /\ before' = Absent
    /\ harvester_settings' = settings_file
    /\ IF ~dry_run /\ fault = "solr"
         THEN /\ last' = Ended("connect", NoPath, "IndexerError")
              /\ UNCHANGED connected
         ELSE /\ last' = Ended("connect", NoPath, "none")
              /\ connected' = TRUE
    /\ UNCHANGED <<dry_run, settings_file, record_sets, solr, s3>>
    /\ UNCHANGED <<engine_vars, main_vars, thumbnail_vars>>

\* disconnect: closes the stores, which keep their contents.
Disconnect ==
    /\ connected
    /\ connected' = FALSE
    /\ before' = Absent
    /\ last' = Ended("disconnect", NoPath, "none")
    /\ UNCHANGED <<dry_run, settings_file, harvester_settings, record_sets,
                   solr, s3>>
    /\ UNCHANGED <<engine_vars, main_vars, thumbnail_vars>>

\* set_harvester_settings, as HarvestSettingsEventHandler.on_modified calls
\* it after the file was changed: keys not in the file are deleted, every
\* key of the file is put.  There is no dry_run test on this path.
SetHarvesterSettings(new_file) ==
    /\ connected
    /\ before' = Absent
    /\ settings_file' = new_file
    /\ harvester_settings' = new_file
    /\ last' = Ended("set_harvester_settings", NoPath, "none")
    /\ UNCHANGED <<dry_run, connected, record_sets, solr, s3>>
    /\ UNCHANGED <<engine_vars, main_vars, thumbnail_vars>>

\* The values of a list.
Elements(list) == {list[i] : i \in 1..Len(list)}

\* list(filter(lambda x: x != value, list))
filter_out(value, list) ==
    LET Keep(x) == x # value IN SelectSeq(list, Keep)

\* PRLSolrDocument.__init__, lines 66-74: the document of a record file
\* carries the collection of that file, as one-element lists.  (The call in
\* get_solr_document passes three configuration arguments that this
\* __init__ does not declare; the fields below come from the arguments
\* both have.)
PRLSolrDocument(collection_key, collection_name) ==
    Entry(<<collection_key>>, <<collection_name>>)

\* complete_collection_list that keeps the document's own collection only.
complete_collection_list_current_only(document, collection_key_list, collection_name_list) ==
    document

\* complete_collection_list: the stored lists, followed by the document's
\* collection unless its key is stored already.
complete_collection_list(document, collection_key_list, collection_name_list) ==
    IF document.collectionKey[1] \notin Elements(collection_key_list)
      THEN Entry(collection_key_list \o document.collectionKey,
                 collection_name_list \o document.collectionName)
      ELSE Entry(collection_key_list, collection_name_list)

\* The pysolr_doc of update_record, lines 251-263.
UpdatedDocument(path) ==
    IF record_sets[path.id].present
      THEN complete_collection_list(
             PRLSolrDocument(path.collection_key, SetName(path.collection_key)),
             record_sets[path.id].collectionKey,
             record_sets[path.id].collectionName)
      ELSE PRLSolrDocument(path.collection_key, SetName(path.collection_key))

\* update_record.  In a dry run line 280 reads record_identifier, which
\* only the other branch assigns.  Otherwise get_key_record_metadata needs
\* the harvest's settings, save_thumbnail may put a thumbnail on S3, then
\* Solr and record_sets are written; when the LevelDB write fails after
\* the Solr add, the document is deleted from Solr.
UpdateRecord(path, thumbnail, fault) ==
    /\ connected
    /\ before' = record_sets[path.id]
    /\ IF dry_run
         THEN /\ last' = Ended("update_record", path, "UnboundLocalError")
              /\ UNCHANGED <<record_sets, solr, s3>>
         ELSE IF path.collection_key \notin harvester_settings
         THEN /\ last' = Ended("update_record", path, "IndexerError")
              /\ UNCHANGED <<record_sets, solr, s3>>
         ELSE /\ s3' = IF thumbnail = "saved"
                         THEN s3 \cup {<<path.collection_key, path.id>>}
                         ELSE s3
              /\ CASE fault = "solr" ->
                        /\ last' = Ended("update_record", path, "IndexerError")
                        /\ UNCHANGED <<record_sets, solr>>
                   [] fault = "leveldb" ->
                        /\ solr' = [solr EXCEPT ![path.id] = Absent]
                        /\ last' = Ended("update_record", path, "IndexerError")
                        /\ UNCHANGED record_sets
                   [] OTHER ->
                        /\ solr' = [solr EXCEPT ![path.id] = UpdatedDocument(path)]
                        /\ record_sets' =
                              [record_sets EXCEPT ![path.id] = UpdatedDocument(path)]
                        /\ last' = Ended("update_record", path, "none")
    /\ UNCHANGED <<dry_run, connected, settings_file, harvester_settings>>
    /\ UNCHANGED <<engine_vars, main_vars, thumbnail_vars>>

\* The lists remove_record stores when the record stays in other
\* collections, lines 321-322: keys are filtered by the key, names by the name.
RemainingCollections(path) ==
    Entry(filter_out(path.collection_key, record_sets[path.id].collectionKey),
          filter_out(SetName(path.collection_key),
                     record_sets[path.id].collectionName))

\* remove_record.  Without an entry, None.decode() raises AttributeError.
\* With one stored collection the document is searched and deleted, then
\* the entry; otherwise both get the remaining collections.  A document
\* built by update_record has no 'thumbnail_url' (add_thumbnail_url is not
\* called), so line 304 is not reached.
RemoveRecord(path, fault) ==
    /\ connected
    /\ before' = record_sets[path.id]
    /\ IF dry_run
         THEN /\ last' = Ended("remove_record", path, "none")
              /\ UNCHANGED <<record_sets, solr>>
         ELSE IF path.collection_key \notin harvester_settings
         THEN /\ last' = Ended("remove_record", path, "IndexerError")
              /\ UNCHANGED <<record_sets, solr>>
         ELSE IF ~record_sets[path.id].present
         THEN /\ last' = Ended("remove_record", path, "AttributeError")
              /\ UNCHANGED <<record_sets, solr>>
         ELSE IF Len(record_sets[path.id].collectionKey) = 1
         THEN CASE fault = "solr" \/ ~solr[path.id].present ->
                     /\ last' = Ended("remove_record", path, "IndexerError")
                     /\ UNCHANGED <<record_sets, solr>>
                [] fault = "leveldb" ->
                     /\ solr' = [solr EXCEPT ![path.id] = Absent]
                     /\ last' = Ended("remove_record", path, "IndexerError")
                     /\ UNCHANGED record_sets
                [] OTHER ->
                     /\ solr' = [solr EXCEPT ![path.id] = Absent]
                     /\ record_sets' = [record_sets EXCEPT ![path.id] = Absent]
                     /\ last' = Ended("remove_record", path, "none")
         ELSE CASE fault = "solr" ->
                     /\ last' = Ended("remove_record", path, "IndexerError")
                     /\ UNCHANGED <<record_sets, solr>>
                [] fault = "leveldb" ->
                     /\ solr' = [solr EXCEPT ![path.id] = RemainingCollections(path)]
                     /\ last' = Ended("remove_record", path, "IndexerError")
                     /\ UNCHANGED record_sets
                [] OTHER ->
                     /\ solr' = [solr EXCEPT ![path.id] = RemainingCollections(path)]
                     /\ record_sets' =
                           [record_sets EXCEPT ![path.id] = RemainingCollections(path)]
                     /\ last' = Ended("remove_record", path, "none")
    /\ UNCHANGED <<dry_run, connected, settings_file, harvester_settings, s3>>
    /\ UNCHANGED <<engine_vars, main_vars, thumbnail_vars>>

NextIndexer ==
    \/ \E fault \in Faults : Connect(fault)
    \/ Disconnect
    \/ \E new_file \in SettingsFiles : SetHarvesterSettings(new_file)
    \/ \E path \in Paths, fault \in Faults :
          \E thumbnail \in ThumbnailsOf(path) :
              UpdateRecord(path, thumbnail, fault)
    \/ \E path \in Paths, fault \in Faults : RemoveRecord(path, fault)

SpecIndexer == InitIndexer /\ [][NextIndexer]_vars

\* ---------------------------------------------------------------------
\* The main program of indexer.py and the handlers of its two observers.
\* An Observer is a thread that hands one event at a time to its handler
\* until stop() is called; join() waits for the thread to end.
\* ---------------------------------------------------------------------

ObserverNames == {"harvest_observer", "harvestersettings_observer"}

\* The callbacks the handler of an observer defines: IndexerEventHandler
\* has on_modified and on_deleted, HarvestSettingsEventHandler on_modified.
Callbacks(observer) ==
    IF observer = "harvest_observer"
      THEN {"on_modified", "on_deleted"}
      ELSE {"on_modified"}

\* What the operation a callback calls ends with: set_harvester_settings
\* returns or raises IndexerError; update_record does so too, but in a dry
\* run it raises UnboundLocalError; remove_record returns in a dry run and
\* otherwise may also raise AttributeError.
EndsWith(observer, callback) ==
    IF observer = "harvestersettings_observer"
      THEN {"none", "IndexerError"}
      ELSE IF callback = "on_modified"
      THEN IF dry_run THEN {"UnboundLocalError"} ELSE {"none", "IndexerError"}
      ELSE IF dry_run THEN {"none"} ELSE {"none", "IndexerError", "AttributeError"}

\* A handler whose except clause names IndexerError.
Caught_IndexerError_only(exception) == exception = "IndexerError"

\* "except Exception as e" of the three callbacks: every exception that
\* an operation raises is an Exception.
Caught(exception) == exception \in {"IndexerError", "UnboundLocalError", "AttributeError"}

\* the largest number of filesystem events of a run
MaxEvents == 3

\* An Observer before start().
NotStarted == [stopped |-> FALSE, alive |-> FALSE, handling |-> "none"]

\* The program after indexer.connect() and exceptions_queue = Queue().
InitMain ==
    /\ EngineInit
    /\ dry_run \in BOOLEAN
    /\ connected = TRUE
    /\ settings_file = {}
    /\ harvester_settings = {}
    /\ record_sets = EmptyStore
    /\ solr = EmptyStore
    /\ s3 = {}
    /\ before = Absent
    /\ last = NoOperation
    /\ main_pc = "start harvest_observer"
    /\ exceptions_queue = <<>>
    /\ observers = [o \in ObserverNames |-> NotStarted]
    /\ events_begun = 0
    /\ escaped = 0
    /\ ThumbnailUnused

\* What no step of the main program or of an observer changes.
main_frame ==
    <<engine_vars, dry_run, settings_file, harvester_settings, record_sets,
      solr, s3, before, last, thumbnail_vars>>

\* harvest_observer.start() and harvestersettings_observer.start().
ObserverStart(observer, then) ==
    /\ main_pc = "start " \o observer
    /\ observers' = [observers EXCEPT ![observer].alive = TRUE]
    /\ main_pc' = then
    /\ UNCHANGED <<exceptions_queue, events_begun, escaped, connected, main_frame>>

\* The observer thread takes an event and calls the handler's callback;
\* it takes none once stop() was called.
Dispatch(observer, callback) ==
    /\ observers[observer].alive
    /\ ~observers[observer].stopped
    /\ observers[observer].handling = "none"
    /\ events_begun < MaxEvents
    /\ observers' = [observers EXCEPT ![observer].handling = callback]
    /\ events_begun' = events_begun + 1
    /\ UNCHANGED <<main_pc, exceptions_queue, escaped, connected, main_frame>>

\* The callback ends: the operation returned, or it raised and the
\* except clause put the exception on the queue.  An exception that no
\* clause catches leaves the handler and ends the observer thread.
HandlerEnd(observer, exception) ==
    /\ observers[observer].handling # "none"
    /\ exception \in EndsWith(observer, observers[observer].handling)
    /\ IF exception = "none"
         THEN /\ observers' = [observers EXCEPT ![observer].handling = "none"]
              /\ UNCHANGED <<exceptions_queue, escaped>>
         ELSE IF Caught(exception)
         THEN /\ observers' = [observers EXCEPT ![observer].handling = "none"]
              /\ exceptions_queue' = Append(exceptions_queue, exception)
              /\ UNCHANGED escaped
         ELSE /\ observers' = [observers EXCEPT ![observer].handling = "none",
                                                ![observer].alive = FALSE]
              /\ escaped' = escaped + 1
              /\ UNCHANGED exceptions_queue
    /\ UNCHANGED <<main_pc, events_begun, connected, main_frame>>

\* The observer thread ends after stop(), when its callback has returned.
ObserverExit(observer) ==
    /\ observers[observer].alive
    /\ observers[observer].stopped
    /\ observers[observer].handling = "none"
    /\ observers' = [observers EXCEPT ![observer].alive = FALSE]
    /\ UNCHANGED <<main_pc, exceptions_queue, events_begun, escaped, connected,
                   main_frame>>

\* "while exceptions_queue.empty(): time.sleep(1)" is left and
\* "raise exceptions_queue.get()" is caught by one of the except clauses.
MainRaise ==
    /\ main_pc = "wait"
    /\ exceptions_queue # <<>>
    /\ exceptions_queue' = Tail(exceptions_queue)
    /\ main_pc' = "stop harvest_observer"
    /\ UNCHANGED <<observers, events_begun, escaped, connected, main_frame>>

\* Ctrl-C during the wait: except KeyboardInterrupt.
KeyboardInterrupt ==
    /\ main_pc = "wait"
    /\ main_pc' = "stop harvest_observer"
    /\ UNCHANGED <<exceptions_queue, observers, events_begun, escaped,
                   connected, main_frame>>

\* finally: observer.stop()
ObserverStop(observer) ==
    /\ main_pc = "stop " \o observer
    /\ observers' = [observers EXCEPT ![observer].stopped = TRUE]
    /\ main_pc' = "join " \o observer
    /\ UNCHANGED <<exceptions_queue, events_begun, escaped, connected, main_frame>>

\* finally: observer.join() returns when the thread has ended.
ObserverJoin(observer, then) ==
    /\ main_pc = "join " \o observer
    /\ ~observers[observer].alive
    /\ main_pc' = then
    /\ UNCHANGED <<exceptions_queue, observers, events_begun, escaped,
                   connected, main_frame>>

\* finally: indexer.disconnect()
MainDisconnect ==
    /\ main_pc = "disconnect"
    /\ connected' = FALSE
    /\ main_pc' = "done"
    /\ UNCHANGED <<exceptions_queue, observers, events_begun, escaped, main_frame>>

\* The steps of the main thread, Ctrl-C apart.
MainThread ==
    \/ ObserverStart("harvest_observer", "start harvestersettings_observer")
    \/ ObserverStart("harvestersettings_observer", "wait")
    \/ MainRaise
    \/ ObserverStop("harvest_observer")
    \/ ObserverJoin("harvest_observer", "stop harvestersettings_observer")
    \/ ObserverStop("harvestersettings_observer")
    \/ ObserverJoin("harvestersettings_observer", "disconnect")
    \/ MainDisconnect

\* The steps of an observer thread that need no event to arrive.
ObserverThread(observer) ==
    \/ \E exception \in {"none"} \cup {"IndexerError", "UnboundLocalError", "AttributeError"} :
          HandlerEnd(observer, exception)
    \/ ObserverExit(observer)

NextMain ==
    \/ MainThread
    \/ KeyboardInterrupt
    \/ \E observer \in ObserverNames :
          \E callback \in Callbacks(observer) : Dispatch(observer, callback)
    \/ \E observer \in ObserverNames : ObserverThread(observer)

\* Every thread that can take a step is scheduled: the main thread polls
\* the queue every second, a callback ends, a stopped observer thread ends.
SpecMain ==
    /\ InitMain
    /\ [][NextMain]_vars
    /\ WF_vars(MainThread)
    /\ \A observer \in ObserverNames : WF_vars(ObserverThread(observer))

\* What no step of download_thumbnail changes.
thumbnail_frame == <<engine_vars, store_vars, main_vars>>

\* ---------------------------------------------------------------------
\* Indexer.download_thumbnail.
\* ---------------------------------------------------------------------

\* n_tries = 3
n_tries == 3

\* the largest number of chunks of a response body
MaxChunks == 2

IMAGE_JPEG == <<"i", "m", "a", "g", "e", "/", "j", "p", "e", "g">>
IMAGE_PNG == <<"i", "m", "a", "g", "e", "/", "p", "n", "g">>
IMAGE_SLASH == <<"i", "m", "a", "g", "e", "/">>
TEXT_HTML == <<"t", "e", "x", "t", "/", "h", "t", "m", "l">>

\* response.headers.get('Content-Type'): a string, or None
Header(text) == [given |-> TRUE, text |-> text]
NoHeader == [given |-> FALSE, text |-> <<>>]
ContentTypes ==
    {Header(IMAGE_JPEG), Header(IMAGE_PNG), Header(IMAGE_SLASH),
     Header(TEXT_HTML), NoHeader}

\* re.compile('image/.+')
image_pattern == Cat(<<Lit(IMAGE_SLASH), Plus(Chr(alpha \cup {"/", "-"}))>>)

\* what requests.get and raise_for_status end with
Replies ==
    {[kind |-> k, content_type |-> NoHeader, size |-> 0] :
        k \in {"Timeout", "ConnectionError", "HTTPError"}}
    \cup {[kind |-> "response", content_type |-> h, size |-> n] :
            h \in ContentTypes, n \in 0..MaxChunks}

\* InitThumbnail: the indexer is connected; no call runs; no file yet.
InitThumbnail ==
    /\ EngineInit
    /\ dry_run = FALSE
    /\ connected = TRUE
    /\ settings_file = {}
    /\ harvester_settings = {}
    /\ record_sets = EmptyStore
    /\ solr = EmptyStore
    /\ s3 = {}
    /\ before = Absent
    /\ last = NoOperation
    /\ MainUnused
    /\ dl_pc = "idle"
    /\ try_i = 0
    /\ requests_made = 0
    /\ timeouts = 0
    /\ response = NoResponse
    /\ dl_result = "none"
    /\ exception_caught = "none"
    /\ thumbnail_file = -1

\* The call up to the loop: os.makedirs(..., exist_ok=True), whose failure
\* the outer except turns into IndexerError; then try_i = 1.
DownloadThumbnail(makedirs) ==
    /\ dl_pc = "idle"
    /\ requests_made' = 0
    /\ timeouts' = 0
    /\ exception_caught' = "none"
    /\ response' = NoResponse
    /\ IF makedirs = "OSError"
         THEN /\ dl_pc' = "raised"
              /\ dl_result' = "IndexerError"
              /\ try_i' = 0
         ELSE /\ dl_pc' = "get"
              /\ dl_result' = "none"
              /\ try_i' = 1
    /\ UNCHANGED <<thumbnail_file, thumbnail_frame>>

\* A loop that goes on after a connection error as well.
Retry_after_any_request_error(exception, i) ==
    exception \in {"Timeout", "ConnectionError"} /\ i < n_tries

\* Whether the loop goes on after an exception of try i: only
\* "except requests.Timeout" with try_i < n_tries does not return.
Retry(exception, i) == exception = "Timeout" /\ i < n_tries

\* One turn of the loop: requests.get, raise_for_status and the test of
\* the Content-Type.  A matching type opens the file for writing, which
\* empties it; a missing header makes re.match raise TypeError, which only
\* the outer except catches; an exception returns None unless Retry.
RequestsGet(reply) ==
    /\ dl_pc = "get"
    /\ requests_made' = requests_made + 1
    /\ timeouts' = IF reply.kind = "Timeout" THEN timeouts + 1 ELSE timeouts
    /\ IF reply.kind # "response"
         THEN /\ exception_caught' = reply.kind
              /\ IF Retry(reply.kind, try_i)
                   THEN /\ try_i' = try_i + 1
                        /\ UNCHANGED <<dl_pc, dl_result>>
                   ELSE /\ dl_pc' = "returned"
                        /\ dl_result' = "None"
                        /\ UNCHANGED try_i
              /\ UNCHANGED <<response, thumbnail_file>>
         ELSE IF ~reply.content_type.given
         THEN /\ dl_pc' = "raised"
              /\ dl_result' = "IndexerError"
              /\ exception_caught' = "TypeError"
              /\ UNCHANGED <<try_i, response, thumbnail_file>>
         ELSE IF re_match(image_pattern, reply.content_type.text).found
         THEN /\ dl_pc' = "write"
              /\ response' = [content_type |-> reply.content_type,
                               size |-> reply.size, chunks |-> reply.size]
              /\ thumbnail_file' = 0
              /\ UNCHANGED <<try_i, dl_result, exception_caught>>
         ELSE /\ dl_pc' = "returned"
              /\ dl_result' = "None"
              /\ response' = [content_type |-> reply.content_type,
                               size |-> reply.size, chunks |-> reply.size]
              /\ UNCHANGED <<try_i, exception_caught, thumbnail_file>>
    /\ UNCHANGED thumbnail_frame

\* One turn of "for chunk in response.iter_content(...)": the chunk is
\* written, or the read or the write fails and the call returns None.
WriteChunk(outcome) ==
    /\ dl_pc = "write"
    /\ response.chunks > 0
    /\ IF outcome = "written"
         THEN /\ thumbnail_file' = thumbnail_file + 1
              /\ response' = [response EXCEPT !.chunks = @ - 1]
              /\ UNCHANGED <<dl_pc, dl_result, exception_caught>>
         ELSE /\ exception_caught' = outcome
              /\ dl_pc' = "returned"
              /\ dl_result' = "None"
              /\ UNCHANGED <<response, thumbnail_file>>
    /\ UNCHANGED <<try_i, requests_made, timeouts, thumbnail_frame>>

\* The body is written: return filepath.
ReturnFilepath ==
    /\ dl_pc = "write"
    /\ response.chunks = 0
    /\ dl_pc' = "returned"
    /\ dl_result' = "filepath"
    /\ UNCHANGED <<try_i, requests_made, timeouts, response, exception_caught,
                   thumbnail_file, thumbnail_frame>>

\* The caller has the result; the file stays where it is.
DownloadEnd ==
    /\ dl_pc \in {"returned", "raised"}
    /\ dl_pc' = "idle"
    /\ UNCHANGED <<try_i, requests_made, timeouts, response, dl_result,
                   exception_caught, thumbnail_file, thumbnail_frame>>

\* The steps of a call that has begun.
DownloadStep ==
    \/ \E reply \in Replies : RequestsGet(reply)
    \/ \E outcome \in {"written", "IOError", "ConnectionError"} : WriteChunk(outcome)
    \/ ReturnFilepath

NextThumbnail ==
    \/ \E makedirs \in {"made", "OSError"} : DownloadThumbnail(makedirs)
    \/ DownloadStep
    \/ DownloadEnd

\* requests.get has a timeout of 30 seconds and the body is finite: a
\* call that has begun takes its next step.
SpecThumbnail ==
    /\ InitThumbnail
    /\ [][NextThumbnail]_vars
    /\ WF_vars(DownloadStep)

\* --------------------------------------------------------------- properties

\* floor(n / 10) * 10, found by search
Floor10(n) == CHOOSE d \in (n - 9)..n : d % 10 = 0

\* the multiples of 10 from lo to hi
Multiples10(lo, hi) == {d \in lo..hi : d % 10 = 0}

\* decades(s) of one string, as the engine's functions give it
DecadesOfString(s) == _enumerate_decades(Extracted[s].years)

\* A call decades(string) with disjoint true has ended, by return or by raise.
SingleEnded == ~data.multi /\ disjoint /\ pc \in {"done", "raised"}

\* The strings of the model that fail both calendar parses and hold no
\* substring of any of the five date forms.
Formless(s) ==
    /\ ~parse(s).ok
    /\ ~parse(lstrip(s, alpha \cup {" "})).ok
    /\ \A i \in 1..Len(s) : ~MatchAt(match_date, s, i).found

FormlessPool == {s \in DateStrings : Formless(s)}

\* C1: a string that fails both calendar parses and holds no substring of a
\* recognized date form gives the empty set and never raises; inside a set of
\* strings it adds nothing to the result.
C1_FormlessGivesNothing ==
    /\ (SingleEnded /\ data.strs \subseteq FormlessPool)
          => (pc = "done" /\ result = {})
    /\ (data.multi /\ disjoint /\ pc \in {"done", "raised"}
            /\ data.strs \subseteq FormlessPool)
          => (pc = "done" /\ result = {})
    /\ (data.multi /\ disjoint /\ pc = "done")
          => result = UNION {DecadesOfString(s) : s \in data.strs \ FormlessPool}

C1_Witness ==
    /\ pc = "done" /\ disjoint /\ result = {}
    /\ data = OneString(NOT_A_DATE)
    /\ NOT_A_DATE \in FormlessPool

\* C2: decades of a set of strings, when it returns, is the union of decades
\* of each string, whatever the order in which the strings were visited; it
\* returns whenever decades of each string does.
C2_UnionOverStrings ==
    (data.multi /\ disjoint /\ pc \in {"done", "raised"}
        /\ \A s \in data.strs : Extracted[s].exc = "none")
      => (pc = "done" /\ result = UNION {DecadesOfString(s) : s \in data.strs})

C2_Witness ==
    /\ pc = "done" /\ disjoint
    /\ data = SetOfStrings({RangeString(Numeral(1920), <<"-">>, Numeral(1935)),
                            PlainYearString(500, BC)})
    /\ result = {1920, 1930, -500}

\* C3: every element of a set that decades returns, and of a set that the
\* disjoint decade reduction gives, is a multiple of 10.
C3_MultiplesOfTen ==
    pc \in {"done", "reduced"} => \A d \in result : d % 10 = 0

C3_Witness ==
    /\ pc = "done" /\ disjoint
    /\ data = OneString(PlainYearString(505, BC))
    /\ result = {-510}

\* The one element of the preprocessed data of a reduction of a single value.
TheDatum == CHOOSE v \in preprocessed_year_data : TRUE

\* C4: for a range (start, end) with start <= end the disjoint reduction is
\* the set of all multiples of 10 from floor(start/10)*10 to floor(end/10)*10;
\* bounding by the raw end gives the same set.
C4_RangeDecades ==
    (pc = "reduced" /\ Cardinality(preprocessed_year_data) = 1
        /\ TheDatum.k = "tuple" /\ TheDatum.a <= TheDatum.b)
      => /\ result = Multiples10(Floor10(TheDatum.a), Floor10(TheDatum.b))
         /\ result = Multiples10(Floor10(TheDatum.a), TheDatum.b)

C4_Witness ==
    /\ pc = "reduced"
    /\ preprocessed_year_data = {[k |-> "tuple", a |-> -25, b |-> 20]}
    /\ result = {-30, -20, -10, 0, 10, 20}

\* C5: for a scalar year y the disjoint reduction is {floor(y/10)*10}, the
\* floor taken toward minus infinity; decades of a plain four-digit year
\* with no suffix is the singleton of its decade.
C5_ScalarDecade ==
    /\ (pc = "reduced" /\ Cardinality(preprocessed_year_data) = 1
            /\ TheDatum.k = "int")
          => result = {Floor10(TheDatum.a)}
    /\ SingleEnded
          => \A y \in FourDigitYears :
                data.strs = {Numeral(y)}
                    => (pc = "done" /\ result = {Floor10(y)})

C5_Witness ==
    /\ pc = "reduced"
    /\ preprocessed_year_data = {[k |-> "int", a |-> -25, b |-> -25]}
    /\ result = {-30}

\* The century strings of the model, each with its ordinal and whether its
\* suffix is one of the BCE suffixes.
CenturyCases ==
    {c \in {[text |-> CenturyString(n, word, suffix), n |-> n,
              bce |-> suffix \in SuffixesBCE] :
                n \in CenturyOrdinals, word \in CenturyWords,
                suffix \in SuffixesBCE \cup SuffixesCE \cup {NoSuffix}} :
        c.text \in CenturyStrings}

CenturyStart(c) == IF c.bce THEN (-100) * c.n ELSE 100 * (c.n - 1)

\* C6: a century string of ordinal N in 1..20 resolves to the range
\* [100(N-1), 100(N-1)+99] with no suffix or a CE suffix and to
\* [-100N, -100N+99] with a BCE suffix; its decades are the ten decades of
\* that range.
C6_Centuries ==
    /\ (~data.multi /\ pc = "except_enumerate")
          => \A c \in CenturyCases :
                data.strs = {c.text}
                    => preprocessed_year_data =
                          {[k |-> "tuple", a |-> CenturyStart(c), b |-> CenturyStart(c) + 99]}
    /\ SingleEnded
          => \A c \in CenturyCases :
                data.strs = {c.text}
                    => /\ pc = "done"
                       /\ result = {CenturyStart(c) + 10 * j : j \in 0..9}

C6_Witness ==
    /\ pc = "done" /\ disjoint
    /\ data = OneString(CenturyString(19, CENTURY, NoSuffix))
    /\ result = {1800, 1810, 1820, 1830, 1840, 1850, 1860, 1870, 1880, 1890}

\* The ranges a-b, a/b and a - b of two years a <= b of three or four digits.
RangeCases ==
    {c \in {[text |-> RangeString(Numeral(a), sep, Numeral(b)), a |-> a, b |-> b] :
                a \in RangeYears, b \in RangeYears, sep \in RangeSeparators} :
        c.a <= c.b}

\* C7: a string of two years a <= b of three or four digits separated by
\* "-" or "/" yields the single range (a, b), and its decades are the
\* multiples of 10 from floor(a/10)*10 that do not exceed b.
C7_YearRanges ==
    /\ (~data.multi /\ pc = "except_enumerate")
          => \A c \in RangeCases :
                data.strs = {c.text}
                    => preprocessed_year_data = {[k |-> "tuple", a |-> c.a, b |-> c.b]}
    /\ SingleEnded
          => \A c \in RangeCases :
                data.strs = {c.text}
                    => /\ pc = "done"
                       /\ result = Multiples10(Floor10(c.a), c.b)

C7_Witness ==
    /\ pc = "done" /\ disjoint
    /\ data = OneString(RangeString(Numeral(1920), <<"/">>, Numeral(1935)))
    /\ result = {1920, 1930}

\* The plain years of the model with their suffixes, each with the year it
\* stands for: negative under a BCE suffix, positive otherwise.
YearOf(y, suffix) == IF suffix \in SuffixesBCE THEN -y ELSE y

PlainYearCases ==
    {[text |-> PlainYearString(y, suffix), year |-> YearOf(y, suffix)] :
        y \in LongYears, suffix \in SuffixesBCE \cup SuffixesCE \cup {NoSuffix}}

\* C8: a plain year with a BCE suffix resolves to the negated year, and one
\* with a CE suffix or with no suffix to the positive year.
C8_PlainYearSign ==
    /\ (~data.multi /\ pc = "except_enumerate")
          => \A c \in PlainYearCases :
                data.strs = {c.text}
                    => preprocessed_year_data = {[k |-> "int", a |-> c.year, b |-> c.year]}
    /\ SingleEnded
          => \A c \in PlainYearCases :
                data.strs = {c.text}
                    => (pc = "done" /\ result = {Floor10(c.year)})

C8_Witness ==
    /\ pc = "done" /\ disjoint
    /\ data = OneString(PlainYearString(500, BC))
    /\ result = {-500}

\* The uncertain years of the model: digits and a marker, with the year they
\* stand for: four digits are the year itself, fewer digits are followed by 0.
UncertainYearCases ==
    {[text |-> UncertainYearString(n, tail),
      year |-> IF n >= 1000 THEN n ELSE 10 * n] :
        n \in UncertainDigits, tail \in UncertainTails}

\* C9: digits followed by one of the markers "-", "*", "?" resolve to the
\* digits followed by 0, and a full four-digit year followed by a marker
\* resolves to that year.
C9_UncertainYears ==
    /\ (~data.multi /\ pc = "except_enumerate")
          => \A c \in UncertainYearCases :
                data.strs = {c.text}
                    => preprocessed_year_data = {[k |-> "int", a |-> c.year, b |-> c.year]}
    /\ SingleEnded
          => \A c \in UncertainYearCases :
                data.strs = {c.text}
                    => (pc = "done" /\ result = {Floor10(c.year)})

C9_Witness ==
    /\ pc = "done" /\ disjoint
    /\ data = OneString(UncertainYearString(199, DASH_QUESTION))
    /\ result = {1990}

\* The years of one and two digits with a suffix, and the numbers of one and
\* two digits without one.
ShortYearCases ==
    {[text |-> PlainYearString(y, suffix), year |-> YearOf(y, suffix)] :
        y \in ShortYears, suffix \in SuffixesBCE \cup (SuffixesCE \ {AD})}

BareShortNumbers == {<<"#">> \o Numeral(y) : y \in ShortYears}

\* C10: a year of one or two digits followed by a space and an era suffix is
\* a year with the sign of the suffix, a bare number of one or two digits is
\* not a year, and a year of three or four digits is one with or without a
\* suffix.
C10_ShortYearsNeedSuffix ==
    SingleEnded
      => /\ \A c \in ShortYearCases :
                data.strs = {c.text}
                    => (pc = "done" /\ result = {Floor10(c.year)})
         /\ data.strs \subseteq BareShortNumbers
                => (pc = "done" /\ result = {})
         /\ \A c \in PlainYearCases :
                data.strs = {c.text}
                    => (pc = "done" /\ result = {Floor10(c.year)})

\* The matches of the composite date pattern in a string, and the values the
\* resolver gives them.
MatchesOf(s) == re_findall(match_date, s)

ResolvedMatches(s) ==
    LET Values(matches) ==
            {_date_match_to_int_or_tuple(matches[j]) : j \in DOMAIN matches}
    IN  Values(MatchesOf(s))

\* The strings that fail both calendar parses and hold a match whose resolved
\* text fails the conversion to an integer.
FailedConversionPool ==
    {s \in DateStrings :
        /\ ~parse(s).ok
        /\ ~parse(lstrip(s, alpha \cup {" "})).ok
        /\ \E v \in ResolvedMatches(s) : v.k = "set"}

\* The year values of the matches of each such string that do convert.
SiblingYears ==
    [s \in FailedConversionPool |-> {v \in ResolvedMatches(s) : IsYearValue(v)}]

\* The year values a string of a batch hands on when a failed conversion is
\* dropped.
YearsKept(s) ==
    IF s \in FailedConversionPool THEN SiblingYears[s] ELSE Extracted[s].years

\* C11: a match whose resolved text fails the conversion to an integer
\* contributes nothing; the extraction does not raise and keeps the other
\* matches of the string, and the other strings of a batch still contribute
\* their decades.
C11_FailedConversionDropped ==
    /\ (~data.multi /\ disjoint /\ pc \in {"except_enumerate", "raised"}
            /\ data.strs \subseteq FailedConversionPool)
          => /\ pc = "except_enumerate"
             /\ \A s \in data.strs : preprocessed_year_data = SiblingYears[s]
    /\ (data.multi /\ disjoint /\ pc \in {"done", "raised"}
            /\ data.strs \cap FailedConversionPool # {})
          => /\ pc = "done"
             /\ result = UNION {_enumerate_decades(YearsKept(s)) : s \in data.strs}

\* C12: decades with disjoint false gives no decade at all, for a string and
\* for a set of strings, and does not raise.
C12_NotDisjointGivesNothing ==
    (~disjoint /\ pc \in {"done", "raised"})
      => (pc = "done" /\ result = {})

\* C13: years gives no year at all for either value of the flag, for a string
\* and for a set of strings, and does not raise.
C13_YearsGivesNothing ==
    pc \in {"years_done", "years_raised"}
      => (pc = "years_done" /\ result = {})

\* What a call gives when it is the only call ever made on a fresh engine:
\* the exception that leaves it, or "none", and the set it returns.
Outcome(exc, set) == [exc |-> exc, result |-> set]

decades_alone(d, dj) ==
    IF d.multi
    THEN IF d.strs = {} THEN Outcome("none", {})
         ELSE IF dj /\ \A s \in d.strs : Extracted[s].exc = "none"
              THEN Outcome("none", UNION {DecadesOfString(s) : s \in d.strs})
              ELSE Outcome("TypeError", {})
    ELSE LET Single(r) ==
                 IF r.exc # "none" THEN Outcome(r.exc, {})
                 ELSE IF dj THEN Outcome("none", _enumerate_decades(r.years))
                 ELSE Outcome("TypeError", {})
         IN  Single(Extracted[CHOOSE s \in d.strs : TRUE])

years_alone(d) ==
    IF ~d.multi THEN Outcome("AssertionError", {})
    ELSE IF d.strs = {} THEN Outcome("none", {})
    ELSE Outcome("TypeError", {})

\* A call that has ended has the outcome of the same call made alone.
EndedAsAlone(call) ==
    /\ call.pc \in {"done", "raised"}
          => Outcome(call.raised, call.result) = decades_alone(call.data, call.disjoint)
    /\ call.pc \in {"years_done", "years_raised"}
          => Outcome(call.raised, call.result) = years_alone(call.data)

\* C14: no call writes the pattern table that the initializer built, and
\* nothing of a call is left when it is over; whatever calls came before it
\* and whatever call of another thread runs between its steps, a call of
\* decades or of years ends as the same call made alone does.
C14_CallsLeaveNoState ==
    /\ regexes = regexes_built
    /\ pc = "idle" => Locals = NoCall
    /\ EndedAsAlone(Locals)
    /\ EndedAsAlone(suspended)

C14_Witness ==
    /\ pc = "done"
    /\ data = SetOfStrings({RangeString(Numeral(1920), <<"-">>, Numeral(1935)),
                            PlainYearString(500, BC)})
    /\ result = {1920, 1930, -500}
    /\ suspended.pc = "for"
    /\ suspended.data = SetOfStrings({PlainYearString(1995, NoSuffix), DMY_500_BC})
    /\ suspended.decade_set = {1990}

\* The ranges of the model whose endpoints carry era suffixes, each with its
\* two years and their suffixes.
SuffixedRangeCases ==
    {c \in {[text |-> RangeString(WithSuffix(Numeral(a), s1), <<"-">>,
                                  WithSuffix(Numeral(b), s2)),
             a |-> a, s1 |-> s1, b |-> b, s2 |-> s2] :
                a \in {400, 500}, b \in {400, 500}, s1 \in {NoSuffix, BC, CE},
                s2 \in SuffixesBCE \cup SuffixesCE \cup {NoSuffix}} :
        c.text \in SuffixedRangeStrings}

\* C15: in a year range whose first endpoint has no suffix and whose second
\* endpoint has a BCE suffix the first endpoint is negated as well; a first
\* endpoint with a suffix of its own keeps the sign of that suffix.
C15_FirstEndpointResigned ==
    (~data.multi /\ disjoint /\ pc \in {"except_enumerate", "raised"})
      => \A c \in SuffixedRangeCases :
            data.strs = {c.text}
                => /\ pc = "except_enumerate"
                   /\ (c.s1 = NoSuffix /\ c.s2 \in SuffixesBCE)
                         => preprocessed_year_data =
                               {[k |-> "tuple", a |-> -c.a, b |-> -c.b]}
                   /\ c.s1 # NoSuffix
                         => \A v \in preprocessed_year_data :
                               v.k = "tuple" /\ v.a = YearOf(c.a, c.s1)

C15_Witness ==
    /\ pc = "except_enumerate" /\ disjoint
    /\ data = OneString(RangeString(Numeral(500), <<"-">>, PlainYearString(400, BC)))
    /\ preprocessed_year_data = {[k |-> "tuple", a |-> -500, b |-> -400]}

\* The ranges a-b, a/b and a - b of two years of three or four digits, in
\* either order.
AnyOrderRangeCases ==
    {[text |-> RangeString(Numeral(a), sep, Numeral(b)), a |-> a, b |-> b] :
        a \in RangeYears, b \in RangeYears, sep \in RangeSeparators}

\* C16: a year range is the pair (first, second) in the order of the text,
\* also when first > second, and a suffix on the first endpoint leaves the
\* sign of the second endpoint to the second endpoint's own suffix.
C16_RangeInTextualOrder ==
    (~data.multi /\ disjoint /\ pc \in {"except_enumerate", "raised"})
      => /\ \A c \in AnyOrderRangeCases :
                data.strs = {c.text}
                    => /\ pc = "except_enumerate"
                       /\ preprocessed_year_data =
                             {[k |-> "tuple", a |-> c.a, b |-> c.b]}
         /\ \A c \in SuffixedRangeCases :
                (data.strs = {c.text} /\ c.s1 # NoSuffix)
                    => /\ pc = "except_enumerate"
                       /\ preprocessed_year_data =
                             {[k |-> "tuple", a |-> YearOf(c.a, c.s1),
                               b |-> YearOf(c.b, c.s2)]}

C16_Witness ==
    /\ pc = "except_enumerate" /\ disjoint
    /\ data = OneString(RangeString(PlainYearString(500, BC), <<"-">>, Numeral(400)))
    /\ preprocessed_year_data = {[k |-> "tuple", a |-> -500, b |-> 400]}

\* The strings of the model that hold a day, a month name and a year, each
\* with the year it stands for.
DayMonthYearCases ==
    {[text |-> DMY_1999_BRACKETS, year |-> 1999],
     [text |-> DMY_1999_TIME, year |-> 1999],
     [text |-> DMY_500_CE, year |-> 500],
     [text |-> DMY_500_BC, year |-> -500]}

\* C17: a match of day, month name, year and time resolves to its year alone:
\* the year itself with no suffix or a CE suffix, the negated year with a
\* BCE suffix.
C17_DayMonthYear ==
    (~data.multi /\ disjoint /\ pc \in {"except_enumerate", "raised"})
      => \A c \in DayMonthYearCases :
            data.strs = {c.text}
                => /\ pc = "except_enumerate"
                   /\ preprocessed_year_data = {[k |-> "int", a |-> c.year, b |-> c.year]}

\* The five alternatives of the composite date pattern in their order of
\* priority: century, year range, day-month-year-with-time, uncertain year,
\* plain year.
Alternatives ==
    <<match_century_plus_suffix, match_year_year, match_dd_mon_year_time,
      match_year_unknown, match_year>>

\* At position i of s the composite pattern matches just when one of the
\* alternatives does, and the one group of the match that is not empty is
\* that of the first alternative that matches there.
Attributed(s, i) ==
    LET Agree(m, able) ==
            IF ~m.found THEN able = {}
            ELSE \E j \in able :
                    /\ \A h \in able : j <= h
                    /\ \A n \in 1..NGroups : (m.group[n] # <<>>) <=> (n = j)
    IN  Agree(MatchAt(match_date, s, i),
              {j \in 1..NGroups : MatchAt(Alternatives[j], s, i).found})

WellAttributed ==
    {s \in DateStrings : \A i \in 1..Len(s) : Attributed(s, i)}

\* The strings none of whose matches sends the resolver to its last branch.
NoErrorBranch ==
    {s \in DateStrings : \A v \in ResolvedMatches(s) : v.k # "NameError"}

\* C18: at every position the composite date pattern gives a match to the
\* first of century, year range, day-month-year-with-time, uncertain year and
\* plain year that matches there; every match has exactly one group that is
\* not empty, so the resolver takes one of its five branches and never its
\* last, raising one.
C18_FirstAlternativeWins ==
    (~data.multi /\ pc \in {"except_enumerate", "raised"})
      => /\ data.strs \subseteq WellAttributed
         /\ data.strs \subseteq NoErrorBranch
         /\ raised # "NameError"

C18_Witness ==
    /\ pc = "except_enumerate" /\ disjoint
    /\ data = OneString(RangeString(Numeral(1920), <<"-">>, Numeral(1935)))
    /\ preprocessed_year_data = {[k |-> "tuple", a |-> 1920, b |-> 1935]}
    /\ \A s \in data.strs :
          {j \in 1..NGroups : MatchAt(Alternatives[j], s, 1).found} = {2, 4, 5}

\* The calendar parse of each string of the model, whole and with its
\* leading letters and spaces stripped.
ParsedWhole == [s \in DateStrings |-> parse(s)]

ParsedStripped == [s \in DateStrings |-> parse(lstrip(s, alpha \cup {" "}))]

\* The values that the resolver gives the matches of each string, whole.
ResolvedWhole == [s \in DateStrings |-> ResolvedMatches(s)]

\* C19: the extraction of a string is the singleton of the year of its
\* calendar parse when that parse succeeds, whatever the date patterns would
\* give; failing that, the singleton of the year of the parse of the string
\* with its leading letters and spaces stripped; the date patterns are
\* applied, to the whole string, only when both parses fail.
C19_ParseBeforePatterns ==
    (~data.multi /\ disjoint /\ pc \in {"except_enumerate", "raised"})
      => \A s \in data.strs :
            /\ ParsedWhole[s].ok
                  => /\ pc = "except_enumerate"
                     /\ preprocessed_year_data =
                           {[k |-> "int", a |-> ParsedWhole[s].year,
                             b |-> ParsedWhole[s].year]}
            /\ (~ParsedWhole[s].ok /\ ParsedStripped[s].ok)
                  => /\ pc = "except_enumerate"
                     /\ preprocessed_year_data =
                           {[k |-> "int", a |-> ParsedStripped[s].year,
                             b |-> ParsedStripped[s].year]}
            /\ (~ParsedWhole[s].ok /\ ~ParsedStripped[s].ok)
                  => /\ pc = "except_enumerate"
                           <=> \A v \in ResolvedWhole[s] : IsYearValue(v)
                     /\ pc = "except_enumerate"
                           => preprocessed_year_data = ResolvedWhole[s]

C19_Witness ==
    /\ pc = "except_enumerate" /\ disjoint
    /\ data = OneString(DMY_1999_AD)
    /\ preprocessed_year_data = {[k |-> "int", a |-> 1999, b |-> 1999]}
    /\ \E v \in ResolvedWhole[DMY_1999_AD] : ~IsYearValue(v)

\* C20: only the ordinals 1st to 20th make a century: a string whose ordinal
\* is 21st or 22nd gives no century range, and so not the range of the
\* ordinal that its last digit spells either.
C20_CenturyOrdinalsOnly ==
    (~data.multi /\ disjoint /\ pc = "except_enumerate"
        /\ data.strs \subseteq OtherCenturyStrings)
      => \A v \in preprocessed_year_data : v.k # "tuple"

\* C21: every year range taken from a date string gives at least one decade,
\* also a range whose first endpoint is greater than its second; no range
\* handed to the decade reduction reduces to the empty set.
C21_RangeGivesADecade ==
    /\ SingleEnded
          => \A c \in AnyOrderRangeCases :
                data.strs = {c.text} => (pc = "done" /\ result # {})
    /\ (pc = "reduced" /\ Cardinality(preprocessed_year_data) = 1
            /\ TheDatum.k = "tuple")
          => result # {}

\* The ranges of the model whose endpoints carry a marker or a month, each
\* with the two years it stands for.
MarkedRangeCases ==
    {[text |-> RANGE_UNCERTAIN, a |-> 1920, b |-> 1930],
     [text |-> RANGE_HALF_UNCERTAIN, a |-> 1850, b |-> 1900],
     [text |-> RANGE_MONTHS, a |-> 1920, b |-> 1921]}

\* C22: an endpoint of a year range that carries an uncertain-digit marker
\* is rounded down to its decade as a stand-alone uncertain year is, and an
\* endpoint followed by a two-digit month resolves to its year alone.
C22_MarkedRangeEndpoints ==
    (~data.multi /\ disjoint /\ pc \in {"except_enumerate", "raised"})
      => \A c \in MarkedRangeCases :
            data.strs = {c.text}
                => /\ pc = "except_enumerate"
                   /\ preprocessed_year_data = {[k |-> "tuple", a |-> c.a, b |-> c.b]}
\* The values a field of the document holds.
FieldValues(f) ==
    IF f \in DOMAIN doc
      THEN {doc[f].items[i] : i \in 1..Len(doc[f].items)}
      ELSE {}

\* C23: when _add_decades has finished, a non-empty decade set D of the
\* record's date fields is what the 'decade' field holds, each decade once,
\* and 'sort_decade' is the minimum of D; with no date field or an empty D
\* the document has neither field.
C23_DecadeFields ==
    pc = "documented"
      => IF result # {}
           THEN /\ DOMAIN doc = {"decade", "sort_decade"}
                /\ FieldValues("decade") = result
                /\ Len(doc["decade"].items) = Cardinality(result)
                /\ doc["sort_decade"] = Scalar(min(result))
           ELSE DOMAIN doc = {}

\* A record dated "1920-1935" and "500 BC" has been given its three
\* decades, the earliest as sort_decade.
C23_Witness ==
    /\ pc = "documented"
    /\ data.strs = {RangeString(Numeral(1920), <<"-">>, Numeral(1935)),
                    PlainYearString(500, BC)}
    /\ FieldValues("decade") = {-500, 1920, 1930}
    /\ doc["sort_decade"] = Scalar(-500)

\* A well-formed entry: as many names as keys.
SameLength(entry) == Len(entry.collectionName) = Len(entry.collectionKey)

\* The positions of an entry whose key is not the given one.
PositionsWithout(entry, collection_key) ==
    {i \in 1..Len(entry.collectionKey) : entry.collectionKey[i] # collection_key}

\* The number of kept positions up to position i.
RankIn(positions, i) == Cardinality({j \in positions : j <= i})

\* An entry without the collection of the given key, name included.
WithoutCollection(entry, collection_key) ==
    LET Kept(positions) ==
          [k \in 1..Cardinality(positions) |->
             CHOOSE i \in positions : RankIn(positions, i) = k]
        Pick(kept) ==
          Entry([k \in DOMAIN kept |-> entry.collectionKey[kept[k]]],
                [k \in DOMAIN kept |-> entry.collectionName[kept[k]]])
    IN  Pick(Kept(PositionsWithout(entry, collection_key)))

DocumentIffEntry ==
    \A id \in RecordIdentifiers : solr[id].present <=> record_sets[id].present

C28_DryRunChangesNothing ==
    [][dry_run
         => /\ UNCHANGED <<solr, s3, record_sets, harvester_settings>>
            /\ last'.op \in {"update_record", "remove_record"}
                  => last'.raised = "none"]_vars

\* C29: no exception leaves a handler; once the queue holds an exception
\* the main thread comes to the end of its finally block; an observer takes
\* no event after its stop(); and at that end both observer threads have
\* ended, no callback runs and the indexer is disconnected.
C29_ExceptionsStopTheProgram ==
    /\ [](escaped = 0)
    /\ [][\A o \in ObserverNames :
             observers[o].stopped
               => observers'[o].handling \in {observers[o].handling, "none"}]_vars
    /\ [](main_pc = "done"
            => /\ \A o \in ObserverNames :
                     /\ observers[o].stopped /\ ~observers[o].alive
                     /\ observers[o].handling = "none"
               /\ ~connected)
    /\ (exceptions_queue # <<>>) ~> (main_pc = "done")

\* Two callbacks raised; the main thread took the first exception from the
\* queue and has stopped and joined the observers and disconnected.
C29_Witness ==
    /\ main_pc = "done"
    /\ exceptions_queue = <<"AttributeError">>
    /\ events_begun = 2
    /\ ~connected

\* C30: a call of download_thumbnail makes at most 3 requests and each
\* request after the first follows a timeout; a connection, HTTP or I/O
\* error ends the call with None, as does the third timeout; a file path
\* is returned only when the last response had an image Content-Type and
\* its body is in the file; and a call that has begun ends.
C30_DownloadThumbnail ==
    /\ [](/\ requests_made <= 3
          /\ requests_made <= timeouts + 1
          /\ dl_pc = "get" => requests_made = timeouts
          /\ exception_caught \in {"ConnectionError", "HTTPError", "IOError"}
                => (dl_pc \in {"returned", "idle"} /\ dl_result = "None")
          /\ timeouts = 3 => (dl_pc \in {"returned", "idle"} /\ dl_result = "None")
          /\ dl_result = "filepath"
                => /\ response.content_type \in {Header(IMAGE_JPEG), Header(IMAGE_PNG)}
                   /\ thumbnail_file = response.size)
    /\ (dl_pc = "get") ~> (dl_pc \in {"returned", "raised"})

\* Two requests timed out, the third brought a PNG image of two chunks,
\* which is in the file, and the path was returned.
C30_Witness ==
    /\ dl_pc = "returned"
    /\ dl_result = "filepath"
    /\ requests_made = 3 /\ timeouts = 2
    /\ response.content_type = Header(IMAGE_PNG)
    /\ thumbnail_file = 2

====
